---- MODULE Spec2Model ----
(***************************************************************************)
(* A model of the Bolt type checker (src/src/checker.ts) together with the *)
(* scope resolution of the syntax tree it walks (cst.ts).  The state is    *)
(* the state of one Checker object during one call of check(sourceFile):   *)
(* the context stack, the type-variable counter, the constraint sets, the  *)
(* diagnostics and the solution of the solver.  Three smaller machines     *)
(* share the module: a Scope that is constructed and asked for a name      *)
(* (SpecScope), a Parser that parses one expression (SpecParser) and a     *)
(* TextPosition that is advanced over texts (SpecPosition).                *)
(***************************************************************************)
EXTENDS Integers, Sequences, FiniteSets, TLC

VARIABLES
  program,        \* the SourceFile handed to check: its elements
  pc,             \* position inside check: "start", "declare", "bodies", ...
  groups,         \* the declaration groups strongconnect yields, in order
  gi,             \* index of the group being processed
  ni,             \* index of the declaration inside the group
  ei,             \* index of the top-level element being inferred
  nextTypeVarId,  \* Checker.nextTypeVarId
  contexts,       \* Checker.contexts: a stack of frame identifiers
  frames,         \* the InferContext objects: frame id -> [set, env, returnType]
  typeVars,       \* the TVSet objects: set id -> set of variable ids
  constraints,    \* the ConstraintSet objects: set id -> sequence of constraints
  nodeType,       \* LetDeclaration.type: declaration -> cached type (or absent)
  diagnostics,    \* the Diagnostics sink: sequence of diagnostics
  solution,       \* Checker.solution: variable id -> Type
  queue,          \* the worklist of solve
  error,          \* the exception that ended check, "" when none
  log,            \* history: what the operations did (allocations, sets, ...)
  scope,          \* a Scope object (cst.ts): [node, mapping]
  lookedUp,       \* the last call of Scope.lookup: [name, expectedKind, decl]
  tokens,         \* the token stream a Parser reads
  tree,           \* what Parser.parseExpression returned
  position,       \* a TextPosition object: [offset, line, column]
  advanced        \* the last call of TextPosition.advance: [before, text]

\* The state of the Checker, of the Scope, of the Parser, of the TextPosition.
checkerVars == <<program, groups, gi, ni, ei, nextTypeVarId, contexts, frames,
                 typeVars, constraints, nodeType, diagnostics, solution, queue,
                 error, log>>
scopeVars == <<scope, lookedUp>>
parserVars == <<tokens, tree>>
positionVars == <<position, advanced>>

vars == <<pc, checkerVars, scopeVars, parserVars, positionVars>>

----------------------------------------------------------------------------
(* Bounds of the model.                                                    *)

\* Number of elements of the SourceFile.
MaxElements == 3

\* Depth of the call stack of unify and substitute the model follows before
\* it reports the stack overflow the engine raises on unbounded recursion.
MaxDepth == 12

\* The largest number of keys of a Map.  The engine allows 2^24; the model
\* scales it down to a size no TVSet reaches unless it grows without end.
MapMaximumSize == 48

\* The largest number of operators in a parsed expression.
MaxOperators == 3
\* The longest text a TextPosition is advanced over, and the offset beyond
\* which it is not advanced again.
MaxText == 3
MaxOffset == 8

----------------------------------------------------------------------------
(* Types (checker.ts, TypeKind and the five Type classes).                 *)

TVar(id) == [kind |-> "Var", id |-> id]

TArrow(paramTypes, returnType) ==
  [kind |-> "Arrow", paramTypes |-> paramTypes, returnType |-> returnType]

TCon(id, argTypes, displayName) ==
  [kind |-> "Con", id |-> id, argTypes |-> argTypes, displayName |-> displayName]

TAny == [kind |-> "Any"]

TTuple(elementTypes) == [kind |-> "Tuple", elementTypes |-> elementTypes]

\* The built-in constructors get the ids 0, 1, 2 from nextConTypeId++.
stringType == TCon(0, <<>>, "String")
intType == TCon(1, <<>>, "Int")
boolType == TCon(2, <<>>, "Bool")

Range(s) == {s[i] : i \in DOMAIN s}

\* TRUE of every value.  The loops below test it on the value they carry
\* from one iteration to the next, so that the value is computed before
\* the next iteration starts, as it is in the program.
Evaluated(x) == x = x

\* The direct subterms of a type, in the order getTypeVars and substitute
\* visit them.
SubTypes(t) ==
  CASE t.kind = "Arrow" -> Append(t.paramTypes, t.returnType)
    [] t.kind = "Con" -> t.argTypes
    [] t.kind = "Tuple" -> t.elementTypes
    [] OTHER -> <<>>

\* getTypeVars: the ids of the variables occurring in a type.
RECURSIVE GetTypeVars(_)
GetTypeVars(t) ==
  IF t.kind = "Var" THEN {t.id}
  ELSE UNION {GetTypeVars(s) : s \in Range(SubTypes(t))}

\* TypeBase.hasTypeVar
HasTypeVar(t, tv) == tv.id \in GetTypeVars(t)

\* TVSet.intersectsType, on the set of ids a TVSet holds
IntersectsType(tvset, t) == GetTypeVars(t) \cap tvset # {}

----------------------------------------------------------------------------
(* Substitutions (TVSub) and substitute.                                   *)

EmptySub == [v \in {} |-> TAny]

\* TVSub.set: Map.set, which replaces an existing entry
SubSet(sub, tv, t) ==
  [v \in DOMAIN sub \cup {tv.id} |-> IF v = tv.id THEN t ELSE sub[v]]

\* The variables substitute reaches from the variables vs by following sub.
RECURSIVE ReachVars(_, _, _)
ReachVars(vs, sub, seen) ==
  LET new == vs \ seen IN
  IF new = {} THEN seen
  ELSE ReachVars(
         UNION {GetTypeVars(sub[v]) : v \in new \cap DOMAIN sub},
         sub, seen \cup new)

\* v lies on a cycle of sub: following the bindings from v leads back to v.
OnCycle(v, sub) ==
  /\ v \in DOMAIN sub
  /\ v \in ReachVars(GetTypeVars(sub[v]), sub, {})

Cyclic(sub) == \E v \in DOMAIN sub : OnCycle(v, sub)

\* TVar.substitute calls other.substitute(sub) on the image of a bound
\* variable, so substitute(t, sub) recurses without end exactly when it
\* reaches a variable on a cycle of sub; the engine then throws RangeError.
SubstituteOverflows(t, sub) ==
  \E v \in ReachVars(GetTypeVars(t), sub, {}) : OnCycle(v, sub)

\* substitute of the five Type classes; defined where it terminates.
RECURSIVE Substitute(_, _)
Substitute(t, sub) ==
  CASE t.kind = "Var" ->
         IF t.id \in DOMAIN sub THEN Substitute(sub[t.id], sub) ELSE t
    [] t.kind = "Arrow" ->
         TArrow([i \in DOMAIN t.paramTypes |-> Substitute(t.paramTypes[i], sub)],
                Substitute(t.returnType, sub))
    [] t.kind = "Con" ->
         TCon(t.id, [i \in DOMAIN t.argTypes |-> Substitute(t.argTypes[i], sub)],
              t.displayName)
    [] t.kind = "Tuple" ->
         TTuple([i \in DOMAIN t.elementTypes |-> Substitute(t.elementTypes[i], sub)])
    [] OTHER -> t

----------------------------------------------------------------------------
(* Constraints and diagnostics.                                            *)

CEqual(left, right, node) ==
  [kind |-> "Equal", left |-> left, right |-> right, node |-> node]

CMany(elements) == [kind |-> "Many", elements |-> elements]

\* CEqual.substitute
SubstituteConstraint(c, sub) ==
  CEqual(Substitute(c.left, sub), Substitute(c.right, sub), c.node)

BindingNotFoudDiagnostic(name, node) ==
  [kind |-> "BindingNotFound", name |-> name, node |-> node]

UnificationFailedDiagnostic(left, right, node) ==
  [kind |-> "UnificationFailed", left |-> left, right |-> right, node |-> node]

ArityMismatchDiagnostic(left, right) ==
  [kind |-> "ArityMismatch", left |-> left, right |-> right]

----------------------------------------------------------------------------
(* unify.  The solver state U threads what unify reads and writes:          *)
(*   solution, diagnostics, sets (the history of solution.set calls),       *)
(*   bound (for each diagnostic added, the variables the solution binds at  *)
(*   that moment), ok (the boolean unify returns) and error (the exception  *)
(*   it throws).                                                            *)

\* The single-step resolution at the head of unify (lines 940-945).
Resolve(t, sol) ==
  IF t.kind = "Var" /\ t.id \in DOMAIN sol THEN sol[t.id] ELSE t

\* The occurs check left out.
OccursCheckSkipped(left, right) == FALSE

\* The occurs check of line 948: right.hasTypeVar(left).
OccursCheck(left, right) == HasTypeVar(right, left)

\* Lines 947-954: left is a variable.
BindVar(left, right, U) ==
  IF OccursCheck(left, right)
  THEN [U EXCEPT !.ok = FALSE]
  ELSE [U EXCEPT !.solution = SubSet(U.solution, left, right),
                 !.sets = Append(@, [tv |-> left.id, type |-> right]),
                 !.ok = TRUE]

\* Any is treated as an ordinary type.
AnyCaseNever(left, right) == FALSE

\* The test of line 960: one side is Any.
AnyCase(left, right) == left.kind = "Any" \/ right.kind = "Any"

\* Lines 965-968: two arrows of different arity.
ArityMismatch(left, right, U) ==
  [U EXCEPT !.diagnostics = Append(@, ArityMismatchDiagnostic(left, right)),
            !.bound = Append(@, DOMAIN U.solution),
            !.ok = FALSE]

RECURSIVE Unify(_, _, _, _)
RECURSIVE UnifyParams(_, _, _, _, _, _)
RECURSIVE UnifyArgs(_, _, _, _, _)

\* The loop of lines 971-975 from index i on: every pair is unified, a
\* failure only clears success.
UnifyParams(ls, rs, i, success, U, depth) ==
  IF i > Len(ls) \/ U.error # "" THEN [U EXCEPT !.ok = success]
  ELSE LET U1 == Unify(ls[i], rs[i], U, depth)
       IN UnifyParams(ls, rs, i + 1, success /\ U1.ok, U1, depth)

\* The loop of lines 996-1000 from index i on: the first failure returns.
UnifyArgs(ls, rs, i, U, depth) ==
  IF i > Len(ls) \/ U.error # "" THEN [U EXCEPT !.ok = (U.error = "")]
  ELSE LET U1 == Unify(ls[i], rs[i], U, depth)
       IN IF ~U1.ok THEN U1 ELSE UnifyArgs(ls, rs, i + 1, U1, depth)

Unify(left0, right0, U, depth) ==
  IF depth > MaxDepth THEN [U EXCEPT !.ok = FALSE, !.error = "RangeError"]
  ELSE
  LET left == Resolve(left0, U.solution)
      right == Resolve(right0, U.solution)
  IN
  IF left.kind = "Var" THEN BindVar(left, right, U)
  ELSE IF right.kind = "Var" THEN Unify(right, left, U, depth + 1)
  ELSE IF AnyCase(left, right) THEN [U EXCEPT !.ok = TRUE]
  ELSE IF left.kind = "Arrow" /\ right.kind = "Arrow" THEN
    IF Len(left.paramTypes) # Len(right.paramTypes)
    THEN ArityMismatch(left, right, U)
    ELSE LET U1 == UnifyParams(left.paramTypes, right.paramTypes, 1, TRUE,
                               U, depth + 1)
         IN IF U1.error # "" THEN U1
            ELSE LET U2 == Unify(left.returnType, right.returnType, U1, depth + 1)
                 IN [U2 EXCEPT !.ok = U1.ok /\ U2.ok]
  ELSE IF left.kind = "Arrow" /\ Len(left.paramTypes) = 0 THEN
    Unify(left.returnType, right, U, depth + 1)
  ELSE IF right.kind = "Arrow" THEN Unify(right, left, U, depth + 1)
  ELSE IF left.kind = "Con" /\ right.kind = "Con" THEN
    IF left.id # right.id THEN [U EXCEPT !.ok = FALSE]
    ELSE IF Len(left.argTypes) # Len(right.argTypes)
    THEN [U EXCEPT !.ok = FALSE, !.error = "AssertionFailed"]
    ELSE UnifyArgs(left.argTypes, right.argTypes, 1, U, depth + 1)
  ELSE [U EXCEPT !.ok = FALSE]

\* Lines 921-929 of solve: a failed unification adds UnificationFailed with
\* both sides substituted; substitute overflows the stack on a cyclic
\* solution.
ReportFailure(c, U) ==
  IF SubstituteOverflows(c.left, U.solution) \/ SubstituteOverflows(c.right, U.solution)
  THEN [U EXCEPT !.error = "RangeError"]
  ELSE [U EXCEPT !.diagnostics =
          Append(@, UnificationFailedDiagnostic(Substitute(c.left, U.solution),
                                                Substitute(c.right, U.solution),
                                                c.node)),
                 !.bound = Append(@, DOMAIN U.solution)]

\* The Equal case of solve for one constraint.
SolveEqual(c, U) ==
  LET U1 == Unify(c.left, c.right, U, 1)
  IN IF U1.error # "" THEN U1
     ELSE IF ~U1.ok THEN ReportFailure(c, U1)
     ELSE U1

----------------------------------------------------------------------------
(* Syntax (cst.ts).  A node is a record with the kind and the fields of    *)
(* its class; identifiers and operators are their text.                    *)

Null == [kind |-> "Null"]

ReferenceExpression(name) == [kind |-> "ReferenceExpression", name |-> name]

ConstantExpression(token) == [kind |-> "ConstantExpression", token |-> token]

CallExpression(func, args) ==
  [kind |-> "CallExpression", func |-> func, args |-> args]

InfixExpression(left, operator, right) ==
  [kind |-> "InfixExpression", left |-> left, operator |-> operator,
   right |-> right]

NestedExpression(expression) ==
  [kind |-> "NestedExpression", expression |-> expression]

NamedTupleExpression(name, elements) ==
  [kind |-> "NamedTupleExpression", name |-> name, elements |-> elements]

ExpressionStatement(expression) ==
  [kind |-> "ExpressionStatement", expression |-> expression]

ReturnStatement(expression) ==
  [kind |-> "ReturnStatement", expression |-> expression]

IfStatementCase(test, elements) == [test |-> test, elements |-> elements]

IfStatement(cases) == [kind |-> "IfStatement", cases |-> cases]

ExprBody(expression) == [kind |-> "ExprBody", expression |-> expression]

BlockBody(elements) == [kind |-> "BlockBody", elements |-> elements]

\* A LetDeclaration whose pattern is BindPattern(name) and whose parameters
\* are BindPatterns; typeAssert is Null or a TypeAssert; body is Null, an
\* ExprBody or a BlockBody.
LetDeclaration(name, params, typeAssert, body) ==
  [kind |-> "LetDeclaration", name |-> name, params |-> params,
   typeAssert |-> typeAssert, body |-> body]

\* name is the text of the identifier of the type expression.
ReferenceTypeExpression(name) ==
  [kind |-> "ReferenceTypeExpression", name |-> name]

TypeAssert(typeExpression) ==
  [kind |-> "TypeAssert", typeExpression |-> typeExpression]

BindPattern(name) == [kind |-> "BindPattern", name |-> name]

StructPatternField(name, pattern) ==
  [kind |-> "StructPatternField", name |-> name, pattern |-> pattern]

PunnedStructPatternField(name) ==
  [kind |-> "PunnedStructPatternField", name |-> name]

StructPattern(name, members) ==
  [kind |-> "StructPattern", name |-> name, members |-> members]

\* The pattern of  let (+) a b : operator is the text of the operator.
WrappedOperator(operator) == [kind |-> "WrappedOperator", operator |-> operator]

\* A LetDeclaration with its pattern and the patterns of its parameters.
LetPattern(pattern, params, body) ==
  [kind |-> "LetDeclaration", pattern |-> pattern, params |-> params,
   typeAssert |-> Null, body |-> body]

\* LetDeclaration.pattern and the pattern of each Param of the declaration.
PatternOf(node) ==
  IF "pattern" \in DOMAIN node THEN node.pattern ELSE BindPattern(node.name)

ParamPattern(node, i) ==
  IF "pattern" \in DOMAIN node THEN node.params[i]
  ELSE BindPattern(node.params[i])

\* members are the names of the elements of the enumeration.
EnumDeclaration(name, members) ==
  [kind |-> "EnumDeclaration", name |-> name, members |-> members]

StructDeclaration(name) == [kind |-> "StructDeclaration", name |-> name]

TypeDeclaration(name) == [kind |-> "TypeDeclaration", name |-> name]

ModuleDeclaration(name, elements) ==
  [kind |-> "ModuleDeclaration", name |-> name, elements |-> elements]

ImportDeclaration(importSource) ==
  [kind |-> "ImportDeclaration", importSource |-> importSource]

\* A node is named by its path: <<i>> is element i of the SourceFile,
\* p \o <<j>> is element j of the block body of the LetDeclaration p or
\* element j of the ModuleDeclaration p, and p \o <<-c, j>> is element j of
\* case c of the IfStatement p.  The SourceFile itself is the empty path.
RECURSIVE NodeAt(_, _)
NodeAt(file, path) ==
  LET n == Len(path) IN
  IF n = 1 THEN file[path[1]]
  ELSE IF path[n - 1] < 0
  THEN NodeAt(file, SubSeq(path, 1, n - 2)).cases[-path[n - 1]].elements[path[n]]
  ELSE IF NodeAt(file, SubSeq(path, 1, n - 1)).kind = "ModuleDeclaration"
  THEN NodeAt(file, SubSeq(path, 1, n - 1)).elements[path[n]]
  ELSE NodeAt(file, SubSeq(path, 1, n - 1)).body.elements[path[n]]

LetTarget(path) == [kind |-> "LetDeclaration", path |-> path]

ParamTarget(path, i) == [kind |-> "Param", parent |-> path, index |-> i]

RECURSIVE Flatten(_)
Flatten(ss) == IF ss = <<>> THEN <<>> ELSE Head(ss) \o Flatten(Tail(ss))

----------------------------------------------------------------------------
(* Scope (cst.ts, class Scope).                                            *)

SymVar == "Var"
SymType == "Type"
SymkindAny == {"Var", "Type", "Module"}

\* An entry of the mapping: the name, with the kind and the node.
Entry(name, decl, kind) == [name |-> name, kind |-> kind, decl |-> decl]

\* The declaration nodes an entry can map to, besides LetTarget and
\* ParamTarget: a type, struct, enum or module declaration and an element
\* of an enum.
DeclTarget(node, path) == [kind |-> node.kind, path |-> path]

MemberTarget(path, i) == [kind |-> "EnumMember", parent |-> path, index |-> i]

\* A mapping M under construction is the list of its entries in the order
\* add stored them, and error, which is "" unless scan threw.
\* Scope.add appends one entry to the mapping.
Add(M, name, decl, kind) ==
  IF M.error # "" THEN M
  ELSE [M EXCEPT !.entries = Append(@, Entry(name, decl, kind))]

RECURSIVE ScanPattern(_, _, _)
RECURSIVE ScanMembers(_, _, _, _)

\* The loop of the StructPattern case of scanPattern from member i on.
ScanMembers(node, i, decl, M) ==
  IF i > Len(node.members) \/ M.error # "" THEN M
  ELSE ScanMembers(node, i + 1, decl,
         CASE node.members[i].kind = "StructPatternField" ->
                ScanPattern(node.members[i].pattern, decl, M)
           [] node.members[i].kind = "PunnedStructPatternField" ->
                Add(M, node.name, decl, SymVar)
           [] OTHER -> M)

\* Scope.scanPattern: the entries the pattern adds for the declaration
\* decl; a pattern of any other class throws.
ScanPattern(node, decl, M) ==
  IF M.error # "" THEN M ELSE
  CASE node.kind = "BindPattern" -> Add(M, node.name, decl, SymVar)
    [] node.kind = "StructPattern" -> ScanMembers(node, 1, decl, M)
    [] OTHER -> [M EXCEPT !.error = "Unexpected"]

\* The LetDeclaration case of Scope.scan, up to the test node === this.node:
\* the entries of the pattern of each parameter, mapped to its Param node,
\* from parameter i on.
RECURSIVE ScanParams(_, _, _, _)
ScanParams(node, path, i, M) ==
  IF i > Len(node.params) \/ M.error # "" THEN M
  ELSE ScanParams(node, path, i + 1,
                  ScanPattern(ParamPattern(node, i), ParamTarget(path, i), M))

\* Scope.scan of a LetDeclaration that is not the anchor of the scope: its
\* parameters, then the operator or the names its pattern binds.
ScanLet(node, path, M) ==
  IF PatternOf(node).kind = "WrappedOperator"
  THEN Add(ScanParams(node, path, 1, M), PatternOf(node).operator,
           LetTarget(path), SymVar)
  ELSE ScanPattern(PatternOf(node), LetTarget(path), ScanParams(node, path, 1, M))

\* The StructDeclaration case of Scope.scan.
ScanStruct(node, path, M) ==
  Add(Add(M, node.name, DeclTarget(node, path), SymType),
      node.name, DeclTarget(node, path), SymVar)

\* The EnumDeclaration case of Scope.scan: it has no break, so control
\* falls through into the StructDeclaration case.
ScanEnum(node, path, M) ==
  ScanStruct(node, path,
    [Add(M, node.name, DeclTarget(node, path), SymType) EXCEPT
       !.entries = @ \o [i \in DOMAIN node.members |->
                           Entry(node.members[i], MemberTarget(path, i), SymVar)]])

RECURSIVE Scan(_, _, _)
RECURSIVE ScanElements(_, _, _, _)

\* Scope.scan over a list of elements, from element i on; nothing is
\* scanned after a throw.
ScanElements(elements, i, base, M) ==
  IF i > Len(elements) \/ M.error # "" THEN M
  ELSE ScanElements(elements, i + 1, base,
                    Scan(elements[i], Append(base, i), M))

\* Scope.scan of one element (lines 262-326): a module adds its name and
\* its elements to the same scope, statements add nothing, a node of any
\* other class throws.
Scan(node, path, M) ==
  CASE node.kind = "ModuleDeclaration" ->
         ScanElements(node.elements, 1, path,
                      Add(M, node.name, DeclTarget(node, path), "Module"))
    [] node.kind \in {"ExpressionStatement", "ReturnStatement", "IfStatement"} -> M
    [] node.kind = "TypeDeclaration" ->
         Add(M, node.name, DeclTarget(node, path), SymType)
    [] node.kind = "EnumDeclaration" -> ScanEnum(node, path, M)
    [] node.kind = "StructDeclaration" -> ScanStruct(node, path, M)
    [] node.kind = "LetDeclaration" -> ScanLet(node, path, M)
    [] OTHER -> [M EXCEPT !.error = "Unexpected"]

\* new Scope(node) for the node at owner (the SourceFile or a
\* LetDeclaration): the mapping scan built, and whether scan threw.
ScopeScan(file, owner) ==
  IF owner = <<>>
  THEN ScanElements(file, 1, <<>>, [entries |-> <<>>, error |-> ""])
  ELSE IF NodeAt(file, owner).body.kind = "BlockBody"
  THEN ScanElements(NodeAt(file, owner).body.elements, 1, owner,
                    ScanParams(NodeAt(file, owner), owner, 1,
                               [entries |-> <<>>, error |-> ""]))
  ELSE ScanParams(NodeAt(file, owner), owner, 1, [entries |-> <<>>, error |-> ""])

\* The mapping of the Scope anchored at owner, as the list of its entries
\* in the order add stored them.
ScopeEntries(file, owner) == ScopeScan(file, owner).entries

ScopeParentIsRoot(file, owner) == <<>>

\* Scope.getParent: the scope of the nearest enclosing scope-bearing node;
\* an IfStatement, its cases and a ModuleDeclaration bear no scope.
RECURSIVE ScopeParent(_, _)
ScopeParent(file, owner) ==
  LET up == SubSeq(owner, 1, Len(owner) - 1) IN
  IF up = <<>> THEN up
  ELSE IF up[Len(up)] < 0 THEN ScopeParent(file, SubSeq(up, 1, Len(up) - 1))
  ELSE IF NodeAt(file, up).kind = "LetDeclaration" THEN up
  ELSE ScopeParent(file, up)

\* Scope.lookup from the scope of the node at owner.  getScope constructs
\* the scope of a node when it is first asked for; when the constructor
\* throws, the lookup ends with the exception, which is the result
\* [kind |-> "Thrown"].
RECURSIVE ScopeLookup(_, _, _, _)
ScopeLookup(file, owner, name, expectedKind) ==
  LET M == ScopeScan(file, owner)
      hits == {i \in DOMAIN M.entries :
                 M.entries[i].name = name /\ M.entries[i].kind \in expectedKind}
  IN IF M.error # "" THEN [kind |-> "Thrown"]
     ELSE IF hits # {}
     THEN M.entries[CHOOSE i \in hits : \A j \in hits : i <= j].decl
     ELSE IF owner = <<>> THEN Null
     ELSE ScopeLookup(file, ScopeParent(file, owner), name, expectedKind)

----------------------------------------------------------------------------
(* The reference graph (checker.ts, computeReferenceGraph).  A graph is    *)
(* its vertices in the order they were added and its edges <<from, to>>.   *)

AddVertex(G, v) ==
  IF v \in Range(G.vertices) THEN G ELSE [G EXCEPT !.vertices = Append(@, v)]

AddEdge(G, from, to) ==
  LET G1 == AddVertex(AddVertex(G, from), to)
  IN IF <<from, to>> \in Range(G1.edges) THEN G1
     ELSE [G1 EXCEPT !.edges = Append(@, <<from, to>>)]

\* The ReferenceExpression case of visit (lines 680-694); source is the
\* path of the enclosing LetDeclaration, <<>> when there is none.
VisitReference(file, node, source, G) ==
  LET found == ScopeLookup(file, source, node.name, SymkindAny)
      isParam == found.kind = "Param"
      target == IF isParam THEN LetTarget(found.parent) ELSE found
      G1 == IF isParam /\ source # <<>>
            THEN AddEdge(G, target.path, source) ELSE G
  IN IF found.kind = "Thrown" THEN [G EXCEPT !.error = "Unexpected"]
     ELSE IF source # <<>> /\ target.kind = "LetDeclaration"
     THEN AddEdge(G1, source, target.path)
     ELSE G1

RECURSIVE Visit(_, _, _, _, _)
RECURSIVE VisitAll(_, _, _, _, _, _)
RECURSIVE VisitCases(_, _, _, _, _, _)

\* visit(node, source) for each node of a list; base \o <<i>> is the path
\* of element i when it is a declaration.
VisitAll(file, nodes, i, base, source, G) ==
  IF i > Len(nodes) \/ G.error # "" THEN G
  ELSE VisitAll(file, nodes, i + 1, base, source,
                Visit(file, nodes[i], Append(base, i), source, G))

\* The IfStatement case of visit (lines 733-743) from case i on; path is
\* the path of the statement.
VisitCases(file, cases, i, path, source, G) ==
  IF i > Len(cases) \/ G.error # "" THEN G
  ELSE LET G1 == IF cases[i].test.kind # "Null"
                 THEN Visit(file, cases[i].test, <<>>, source, G) ELSE G
       IN VisitCases(file, cases, i + 1, path, source,
                     VisitAll(file, cases[i].elements, 1, Append(path, -i),
                              source, G1))

\* visit (lines 672-770): a node of any other class throws, and nothing is
\* visited after a throw.
Visit(file, node, path, source, G) ==
  IF G.error # "" THEN G ELSE
  CASE node.kind = "ConstantExpression" -> G
    [] node.kind = "ReferenceExpression" -> VisitReference(file, node, source, G)
    [] node.kind = "NamedTupleExpression" ->
         VisitAll(file, node.elements, 1, <<>>, source, G)
    [] node.kind = "NestedExpression" ->
         Visit(file, node.expression, <<>>, source, G)
    [] node.kind = "InfixExpression" ->
         Visit(file, node.right, <<>>, source,
               Visit(file, node.left, <<>>, source, G))
    [] node.kind = "CallExpression" ->
         VisitAll(file, node.args, 1, <<>>, source,
                  Visit(file, node.func, <<>>, source, G))
    [] node.kind = "IfStatement" ->
         VisitCases(file, node.cases, 1, path, source, G)
    [] node.kind = "ExpressionStatement" ->
         Visit(file, node.expression, <<>>, source, G)
    [] node.kind = "ReturnStatement" ->
         IF node.expression.kind # "Null"
         THEN Visit(file, node.expression, <<>>, source, G) ELSE G
    [] node.kind = "LetDeclaration" ->
         LET G1 == AddVertex(G, path) IN
         CASE node.body.kind = "ExprBody" ->
                Visit(file, node.body.expression, <<>>, path, G1)
           [] node.body.kind = "BlockBody" ->
                VisitAll(file, node.body.elements, 1, path, path, G1)
           [] OTHER -> G1
    [] OTHER -> [G EXCEPT !.error = "Unexpected"]

\* computeReferenceGraph (lines 667-773); error is "" unless visit threw.
ComputeReferenceGraph(file) ==
  VisitAll(file, file, 1, <<>>, <<>>,
           [vertices |-> <<>>, edges |-> <<>>, error |-> ""])

----------------------------------------------------------------------------
(* strongconnect of the graph library: Tarjan's algorithm.  The groups     *)
(* come out leaves first; a group lists its vertices as they leave the     *)
(* stack.                                                                  *)

Successors(G, v) ==
  LET idx == {i \in DOMAIN G.edges : G.edges[i][1] = v} IN
  [k \in 1..Cardinality(idx) |->
     G.edges[CHOOSE i \in idx : Cardinality({j \in idx : j < i}) = k - 1][2]]

Min(a, b) == IF a < b THEN a ELSE b

Reverse(s) == [i \in DOMAIN s |-> s[Len(s) + 1 - i]]

RECURSIVE TarjanVisit(_, _, _)
RECURSIVE TarjanSuccessors(_, _, _, _, _)

TarjanSuccessors(G, v, succ, i, T) ==
  IF i > Len(succ) THEN T
  ELSE LET w == succ[i] IN
       IF w \notin DOMAIN T.indices THEN
         LET T1 == TarjanVisit(G, w, T)
         IN TarjanSuccessors(G, v, succ, i + 1,
              [T1 EXCEPT !.lowlink[v] = Min(@, T1.lowlink[w])])
       ELSE IF w \in Range(T.stack) THEN
         TarjanSuccessors(G, v, succ, i + 1,
              [T EXCEPT !.lowlink[v] = Min(@, T.indices[w])])
       ELSE TarjanSuccessors(G, v, succ, i + 1, T)

TarjanVisit(G, v, T) ==
  LET T1 == [T EXCEPT !.index = @ + 1,
                      !.indices = [x \in DOMAIN @ \cup {v} |->
                                     IF x = v THEN T.index ELSE @[x]],
                      !.lowlink = [x \in DOMAIN @ \cup {v} |->
                                     IF x = v THEN T.index ELSE @[x]],
                      !.stack = Append(@, v)]
      T2 == TarjanSuccessors(G, v, Successors(G, v), 1, T1)
  IN IF T2.lowlink[v] # T2.indices[v] THEN T2
     ELSE LET k == CHOOSE i \in DOMAIN T2.stack : T2.stack[i] = v
          IN [T2 EXCEPT !.stack = SubSeq(@, 1, k - 1),
                        !.out = Append(@, Reverse(SubSeq(T2.stack, k, Len(T2.stack))))]

RECURSIVE TarjanAll(_, _, _)
TarjanAll(G, i, T) ==
  IF i > Len(G.vertices) \/ ~Evaluated(T) THEN T
  ELSE TarjanAll(G, i + 1,
         IF G.vertices[i] \in DOMAIN T.indices THEN T
         ELSE TarjanVisit(G, G.vertices[i], T))

StrongConnect(G) ==
  TarjanAll(G, 1, [index |-> 0, stack |-> <<>>, indices |-> <<>>,
                   lowlink |-> <<>>, out |-> <<>>]).out

----------------------------------------------------------------------------
(* The Checker.  A checker state K is the record of the Checker's fields    *)
(* (see State below); an operation that returns a type yields              *)
(* [K |-> the state after it, type |-> the type].                          *)

\* A Forall whose tvs and constraints are the live TVSet and ConstraintSet
\* of a declaration group is held by reference, [set |-> g]; one built from
\* array literals holds its elements.
Forall(tvs, cs, type) == [tvs |-> tvs, constraints |-> cs, type |-> type]

Elements(seq) == [elements |-> seq]

SetRef(g) == [set |-> g]

IsRef(x) == "set" \in DOMAIN x

\* The elements of a set of ids in Map insertion order; ids are inserted
\* in increasing order.
RECURSIVE SortedSeq(_)
SortedSeq(S) ==
  IF S = {} THEN <<>>
  ELSE LET m == CHOOSE x \in S : \A y \in S : x <= y
       IN <<m>> \o SortedSeq(S \ {m})

Top(K) == K.contexts[Len(K.contexts)]

Throw(K, what) == [K EXCEPT !.error = what]

\* The counter is not advanced.
NextIdStuck(id) == id

\* nextTypeVarId++ (line 369)
NextId(id) == id + 1

\* createTypeVar (lines 368-373): the counter advances, then the variable
\* is added to the TVSet of the top frame.  A TVSet is a Map, and adding a
\* new key to a Map of the maximum size throws RangeError.
CreateTypeVar(K) ==
  IF K.error # "" THEN [K |-> K, type |-> TAny]
  ELSE
  LET id == K.nextTypeVarId
      set == K.frames[Top(K)].set
  IN IF Cardinality(K.typeVars[set]) >= MapMaximumSize
     THEN [K |-> Throw([K EXCEPT !.nextTypeVarId = NextId(id)], "RangeError"),
           type |-> TAny]
     ELSE [K |-> [K EXCEPT !.nextTypeVarId = NextId(id),
                           !.typeVars[set] = @ \cup {id},
                           !.log.allocated = Append(@, id)],
           type |-> TVar(id)]

\* The constraint goes to the frame on top of the stack.
ConstraintFrameTop(K, c) == Len(K.contexts)

\* The loop of addConstraint (lines 386-393): the index in contexts of the
\* frame that receives the constraint.
ConstraintFrame(K, c) ==
  LET hits == {i \in 2..Len(K.contexts) :
                 LET tvs == K.typeVars[K.frames[K.contexts[i]].set]
                 IN IntersectsType(tvs, c.left) \/ IntersectsType(tvs, c.right)}
  IN IF hits = {} THEN 1 ELSE CHOOSE i \in hits : \A j \in hits : j <= i

\* The variables of the non-root frames on the stack.
StackVars(K) ==
  UNION {K.typeVars[K.frames[K.contexts[i]].set] : i \in 2..Len(K.contexts)}

\* addConstraint for an Equal constraint (lines 384-396)
AddConstraint(K, c) ==
  IF K.error # "" THEN K
  ELSE LET set == K.frames[K.contexts[ConstraintFrame(K, c)]].set
       IN [K EXCEPT !.constraints[set] = Append(@, c),
                    !.log.emitted = Append(@, [constraint |-> c, set |-> set,
                                               stackVars |-> StackVars(K)])]

\* Checker.lookup (lines 409-418)
Lookup(K, name) ==
  LET hits == {i \in DOMAIN K.contexts :
                 name \in DOMAIN K.frames[K.contexts[i]].env}
  IN IF hits = {} THEN Null
     ELSE K.frames[K.contexts[CHOOSE i \in hits : \A j \in hits : j <= i]].env[name]

\* addBinding (lines 438-441)
AddBinding(K, name, scheme) ==
  LET f == Top(K)
      env == K.frames[f].env
  IN [K EXCEPT !.frames[f].env =
        [n \in DOMAIN env \cup {name} |-> IF n = name THEN scheme ELSE env[n]]]

\* The variables the first loop of instantiate iterates over, as they are
\* in state K: the elements of a live TVSet are read when the iterator
\* reaches them.
SchemeVars(K, scheme) ==
  IF IsRef(scheme.tvs) THEN SortedSeq(K.typeVars[scheme.tvs.set])
  ELSE scheme.tvs.elements

\* The first loop of instantiate (lines 428-430) from index i on.  tvs are
\* the variables of the scheme before the loop; only the TVSet of the top
\* frame grows during the loop, and the iteration then goes on over the
\* variables createTypeVar adds, until createTypeVar throws.
RECURSIVE InstantiateVars(_, _, _, _, _)
InstantiateVars(K, scheme, tvs, i, sub) ==
  LET now == IF IsRef(scheme.tvs) /\ scheme.tvs.set = K.frames[Top(K)].set
             THEN SchemeVars(K, scheme) ELSE tvs
  IN IF i > Len(now) \/ K.error # "" \/ ~Evaluated(sub)
     THEN [K |-> K, sub |-> sub]
     ELSE LET r == CreateTypeVar(K)
          IN InstantiateVars(r.K, scheme, tvs, i + 1,
                             SubSet(sub, TVar(now[i]), r.type))

\* The scheme's type is returned as it is.
InstanceTypeShared(type, sub) == type

\* The type instantiate returns (line 435).
InstanceType(type, sub) == Substitute(type, sub)

\* The second loop of instantiate (lines 431-434) from index i on, and the
\* type instantiate returns after it (line 435).  substitute overflows the
\* stack when it reaches a variable that sub maps to itself.
RECURSIVE InstantiateConstraints(_, _, _, _, _)
InstantiateConstraints(K, scheme, cs, i, sub) ==
  IF K.error # "" THEN [K |-> K, type |-> TAny]
  ELSE IF i > Len(cs)
  THEN IF SubstituteOverflows(scheme.type, sub)
       THEN [K |-> Throw(K, "RangeError"), type |-> TAny]
       ELSE [K |-> K, type |-> InstanceType(scheme.type, sub)]
  ELSE IF SubstituteOverflows(cs[i].left, sub)
            \/ SubstituteOverflows(cs[i].right, sub)
  THEN [K |-> Throw(K, "RangeError"), type |-> TAny]
  ELSE InstantiateConstraints(
         AddConstraint(K, SubstituteConstraint(cs[i], sub)), scheme, cs, i + 1, sub)

\* instantiate (lines 426-436).  Iterating a live TVSet that createTypeVar
\* adds to does not end by itself: the Map grows until an add throws.
Instantiate(K, scheme) ==
  LET tvs == SchemeVars(K, scheme)
      cs == IF IsRef(scheme.constraints)
            THEN K.constraints[scheme.constraints.set]
            ELSE scheme.constraints.elements
      r == InstantiateVars(K, scheme, tvs, 1, EmptySub)
  IN IF r.K.error # "" THEN [K |-> r.K, type |-> TAny]
     ELSE InstantiateConstraints(
            [r.K EXCEPT !.log.instances =
               Append(@, [tvs |-> tvs,
                          fresh |-> [i \in DOMAIN tvs |-> r.sub[tvs[i]].id],
                          allocated |-> Range(K.log.allocated),
                          scheme |-> scheme, constraints |-> cs,
                          mark |-> Len(K.log.emitted), top |-> Top(K)])],
            scheme, cs, 1, r.sub)

\* A failed lookup: the diagnostic and the type Any (lines 549-552).
BindingNotFound(K, name, node) ==
  [K |-> [K EXCEPT !.diagnostics = Append(@, BindingNotFoudDiagnostic(name, node))],
   type |-> TAny]

\* How far the histories of allocations, constraints and instantiations go.
Marks(K) ==
  [allocated |-> Len(K.log.allocated), emitted |-> Len(K.log.emitted),
   instances |-> Len(K.log.instances)]

\* For the history: the ReferenceExpression node, inferred in state K in the
\* scope of owner, resolved to target and ended as r.
Referenced(K, node, owner, target, r) ==
  [K |-> [r.K EXCEPT !.log.refs =
            Append(@, [name |-> node.name, owner |-> owner, target |-> target,
                       top |-> Top(K), before |-> Marks(K), after |-> Marks(r.K),
                       type |-> r.type, threw |-> r.K.error # ""])],
   type |-> r.type]

RECURSIVE InferExpression(_, _, _, _)
RECURSIVE InferExpressions(_, _, _, _, _, _)

\* inferExpression on each node of a list, collecting the types.
InferExpressions(file, nodes, i, owner, K, types) ==
  IF i > Len(nodes) \/ K.error # "" THEN [K |-> K, types |-> types]
  ELSE LET r == InferExpression(file, nodes[i], owner, K)
       IN InferExpressions(file, nodes, i + 1, owner, r.K, Append(types, r.type))

\* inferExpression (lines 533-630); owner is the path of the node whose
\* Scope node.getScope() returns.
InferExpression(file, node, owner, K) ==
  IF K.error # "" THEN [K |-> K, type |-> TAny]
  ELSE
  CASE node.kind = "NestedExpression" ->
         InferExpression(file, node.expression, owner, K)
    [] node.kind = "ReferenceExpression" ->
         LET target == ScopeLookup(file, owner, node.name, SymkindAny)
         IN Referenced(K, node, owner, target,
              IF target.kind = "Thrown"
              THEN [K |-> Throw(K, "Unexpected"), type |-> TAny]
              ELSE IF target.kind = "LetDeclaration"
                      /\ target.path \in DOMAIN K.nodeType
              THEN [K |-> K, type |-> K.nodeType[target.path]]
              ELSE LET scheme == Lookup(K, node.name)
                   IN IF scheme = Null THEN BindingNotFound(K, node.name, node.name)
                      ELSE Instantiate(K, scheme))
    [] node.kind = "CallExpression" ->
         LET op == InferExpression(file, node.func, owner, K)
             ret == CreateTypeVar(op.K)
             args == InferExpressions(file, node.args, 1, owner, ret.K, <<>>)
         IN [K |-> AddConstraint(args.K,
                     CEqual(op.type, TArrow(args.types, ret.type), node)),
             type |-> ret.type]
    [] node.kind = "ConstantExpression" ->
         [K |-> K,
          type |-> IF node.token = "StringLiteral" THEN stringType ELSE intType]
    [] node.kind = "NamedTupleExpression" ->
         LET scheme == Lookup(K, node.name)
         IN IF scheme = Null THEN BindingNotFound(K, node.name, node.name)
            ELSE LET inst == Instantiate(K, scheme)
                 IN IF inst.K.error # "" THEN inst
                    ELSE IF inst.type.kind # "Con"
                    THEN [K |-> Throw(inst.K, "AssertionFailed"), type |-> TAny]
                    ELSE LET args == InferExpressions(file, node.elements, 1,
                                                      owner, inst.K, <<>>)
                         IN [K |-> args.K,
                             type |-> TCon(inst.type.id, args.types,
                                           inst.type.displayName)]
    [] node.kind = "InfixExpression" ->
         LET scheme == Lookup(K, node.operator)
         IN IF scheme = Null THEN BindingNotFound(K, node.operator, node.operator)
            ELSE LET op == Instantiate(K, scheme)
                     ret == CreateTypeVar(op.K)
                     left == InferExpression(file, node.left, owner, ret.K)
                     right == InferExpression(file, node.right, owner, left.K)
                 IN [K |-> AddConstraint(right.K,
                             CEqual(TArrow(<<left.type, right.type>>, ret.type),
                                    op.type, node)),
                     type |-> ret.type]
    [] OTHER -> [K |-> Throw(K, "Unexpected"), type |-> TAny]

\* getReturnType (lines 420-424)
GetReturnType(K) == K.frames[Top(K)].returnType

RECURSIVE Infer(_, _, _, _)
RECURSIVE InferAll(_, _, _, _, _)
RECURSIVE InferCases(_, _, _, _, _)

InferAll(file, nodes, i, owner, K) ==
  IF i > Len(nodes) \/ K.error # "" THEN K
  ELSE InferAll(file, nodes, i + 1, owner, Infer(file, nodes[i], owner, K))

\* Lines 490-496: the test of an if-case has the type Bool.
TestIsBool(t, test) == AddConstraint(t.K, CEqual(t.type, boolType, test))

InferCases(file, cases, i, owner, K) ==
  IF i > Len(cases) \/ K.error # "" THEN K
  ELSE InferCases(file, cases, i + 1, owner,
         InferAll(file, cases[i].elements, 1, owner,
           IF cases[i].test.kind = "Null" THEN K
           ELSE TestIsBool(InferExpression(file, cases[i].test, owner, K),
                           cases[i].test)))

ReturnTypeUnasserted(r, node) ==
  IF r.K.error # "" THEN r.K
  ELSE AddConstraint(r.K, CEqual(GetReturnType(r.K), r.type, node))

\* Lines 505-518: the returned type equals the return type of the context.
ReturnTypeMatches(r, node) ==
  IF r.K.error # "" THEN r.K
  ELSE IF GetReturnType(r.K) = Null THEN Throw(r.K, "AssertionFailed")
  ELSE AddConstraint(r.K, CEqual(GetReturnType(r.K), r.type, node))

\* infer (lines 468-531)
Infer(file, node, owner, K) ==
  IF K.error # "" THEN K
  ELSE
  CASE node.kind = "ExpressionStatement" ->
         InferExpression(file, node.expression, owner, K).K
    [] node.kind = "IfStatement" -> InferCases(file, node.cases, 1, owner, K)
    [] node.kind = "ReturnStatement" ->
         ReturnTypeMatches(
           IF node.expression.kind = "Null" THEN [K |-> K, type |-> TTuple(<<>>)]
           ELSE InferExpression(file, node.expression, owner, K),
           node)
    [] node.kind = "LetDeclaration" -> K
    [] OTHER -> Throw(K, "Unexpected")

----------------------------------------------------------------------------
(* check (lines 775-899), one step at a time.                              *)

Put(f, k, v) == [x \in DOMAIN f \cup {k} |-> IF x = k THEN v ELSE f[x]]

\* this.contexts.push(context); the history keeps the stack after the call.
Push(K, frame) ==
  [K EXCEPT !.contexts = Append(@, frame),
            !.log.stacks = Append(@, Append(K.contexts, frame))]

PopNothing(K) == K

\* this.contexts.pop(); the history keeps the stack after the call.
Pop(K) ==
  IF K.error # "" THEN K
  ELSE [K EXCEPT !.contexts = SubSeq(@, 1, Len(@) - 1),
                 !.log.stacks = Append(@, SubSeq(K.contexts, 1, Len(K.contexts) - 1))]

\* The frame and the set of the SourceFile.
RootFrame == <<>>
RootSet == 0

BuiltinNames == {"String", "Int", "True", "False", "+", "-", "*", "/", "==", "not"}

Literal(type) == Forall(Elements(<<>>), Elements(<<>>), type)

\* The root environment (lines 786-795); a is the variable of line 784.
RootEnv(a) ==
  [n \in BuiltinNames |->
     CASE n = "String" -> Literal(stringType)
       [] n = "Int" -> Literal(intType)
       [] n \in {"True", "False"} -> Literal(boolType)
       [] n \in {"+", "-", "*", "/"} ->
            Literal(TArrow(<<intType, intType>>, intType))
       [] n = "==" ->
            Forall(Elements(<<a.id>>), Elements(<<>>), TArrow(<<a, a>>, boolType))
       [] n = "not" -> Literal(TArrow(<<boolType>>, boolType))]

\* Lines 777-797: the root frame, the built-ins and the groups.  K0 is the
\* state of a new Checker.
CheckStart(K0, grps) ==
  LET K1 == [K0 EXCEPT
               !.frames = Put(<<>>, RootFrame,
                              [set |-> RootSet, env |-> <<>>, returnType |-> Null]),
               !.typeVars = [g \in 0..Len(grps) |-> {}],
               !.constraints = [g \in 0..Len(grps) |-> <<>>]]
      a == CreateTypeVar(Push(K1, RootFrame))
  IN [a.K EXCEPT !.frames[RootFrame].env = RootEnv(a.type)]

\* inferTypeExpression (lines 632-651): a ReferenceTypeExpression is looked
\* up by the text of its name; any other type expression throws.
InferTypeExpression(K, node) ==
  IF node.kind = "ReferenceTypeExpression"
  THEN LET scheme == Lookup(K, node.name)
       IN IF scheme = Null THEN BindingNotFound(K, node.name, node.name)
          ELSE Instantiate(K, scheme)
  ELSE [K |-> Throw(K, "Unrecognised"), type |-> TAny]

\* inferBindings (lines 653-665): only a BindPattern binds a name.
InferBindings(K, pattern, scheme) ==
  IF K.error = "" /\ pattern.kind = "BindPattern"
  THEN AddBinding(K, pattern.name, scheme)
  ELSE K

\* Lines 822-827 from parameter i on; a throw of createTypeVar ends the loop.
RECURSIVE DeclareParams(_, _, _, _)
DeclareParams(K, node, i, types) ==
  IF i > Len(node.params) \/ K.error # "" THEN [K |-> K, types |-> types]
  ELSE LET r == CreateTypeVar(K)
       IN IF r.K.error # "" THEN [K |-> r.K, types |-> types]
          ELSE DeclareParams(
                 InferBindings(r.K, ParamPattern(node, i), Literal(r.type)),
                 node, i + 1, Append(types, r.type))

GroupSchemeSnapshot(g, type) == Forall(SetRef(g), Elements(<<>>), type)

\* The scheme line 843 binds: it holds the group's TVSet and ConstraintSet.
GroupScheme(g, type) == Forall(SetRef(g), SetRef(g), type)

\* The body of the first loop (lines 804-844) for the declaration at path,
\* a member of group g; a throw ends it where it happens.
DeclareNode(K, file, path, g) ==
  LET node == NodeAt(file, path)
      K1 == Push([K EXCEPT !.frames =
                    Put(@, path, [set |-> g, env |-> <<>>, returnType |-> Null])],
                 path)
      ret == CreateTypeVar(K1)
      K2 == IF ret.K.error # "" THEN ret.K
            ELSE [ret.K EXCEPT !.frames[path].returnType = ret.type]
      ps == DeclareParams(K2, node, 1, <<>>)
      type == TArrow(ps.types, ret.type)
      K3 == IF ps.K.error # "" \/ node.typeAssert.kind = "Null" THEN ps.K
            ELSE LET t == InferTypeExpression(ps.K, node.typeAssert.typeExpression)
                 IN AddConstraint(t.K, CEqual(t.type, type, node.typeAssert))
  IN IF K3.error # "" THEN K3
     ELSE InferBindings(Pop([K3 EXCEPT !.nodeType = Put(@, path, type)]),
                        PatternOf(node), GroupScheme(g, type))

\* The body of the second loop (lines 846-878) for the declaration at path.
\* Lines 858-864: the type of an expression body is the return type.
BodyTypeIsReturnType(r, returnType, expression) ==
  AddConstraint(r.K, CEqual(r.type, returnType, expression))

InferBody(K, file, path) ==
  LET node == NodeAt(file, path)
  IN CASE node.body.kind = "ExprBody" ->
            Pop(BodyTypeIsReturnType(
                  InferExpression(file, node.body.expression, path, Push(K, path)),
                  K.frames[path].returnType, node.body.expression))
       [] node.body.kind = "BlockBody" ->
            Pop(InferAll(file, node.body.elements, 1, path, Push(K, path)))
       [] OTHER -> Pop(Push(K, path))

\* The third loop (lines 880-883): delete node.type.
DeleteTypes(K, group) ==
  [K EXCEPT !.nodeType = [p \in DOMAIN @ \ Range(group) |-> @[p]]]

\* The body of the last loop (lines 887-891) for element i.
InferElement(K, file, i) ==
  IF file[i].kind # "LetDeclaration" THEN Infer(file, file[i], <<>>, K) ELSE K

\* popContext (lines 404-407)
PopContext(K, frame) ==
  IF K.contexts = <<>> \/ Top(K) # frame THEN Throw(K, "AssertionFailed")
  ELSE Pop(K)

----------------------------------------------------------------------------
(* The source files checked.                                               *)

Ref(name) == ReferenceExpression(name)
IntLit == ConstantExpression("Integer")
StrLit == ConstantExpression("StringLiteral")
Stmt(e) == ExpressionStatement(e)

\* let id x = x
LetId == LetDeclaration("id", <<"x">>, Null, ExprBody(Ref("x")))
\* let f x y = x + y
LetF == LetDeclaration("f", <<"x", "y">>, Null,
                       ExprBody(InfixExpression(Ref("x"), "+", Ref("y"))))
\* let r = f 1
LetR == LetDeclaration("r", <<>>, Null,
                       ExprBody(CallExpression(Ref("f"), <<IntLit>>)))
\* let g x = frobnicate x + 1
LetG == LetDeclaration("g", <<"x">>, Null,
          ExprBody(InfixExpression(
            CallExpression(Ref("frobnicate"), <<Ref("x")>>), "+", IntLit)))

XEqY == Stmt(InfixExpression(Ref("x"), "==", Ref("y")))
XEq1 == Stmt(InfixExpression(Ref("x"), "==", IntLit))
YEqS == Stmt(InfixExpression(Ref("y"), "==", StrLit))
XY == Stmt(CallExpression(Ref("x"), <<Ref("y")>>))
YX == Stmt(CallExpression(Ref("y"), <<Ref("x")>>))
X12 == Stmt(CallExpression(Ref("x"), <<IntLit, IntLit>>))
Y1 == Stmt(CallExpression(Ref("y"), <<IntLit>>))
XX == Stmt(CallExpression(Ref("x"), <<Ref("x")>>))
XEqX == Stmt(InfixExpression(Ref("x"), "==", Ref("x")))
\* return
Return == ReturnStatement(Null)
\* return Int("s", x) and return Int(1, 1)
RetSX == ReturnStatement(NamedTupleExpression("Int", <<StrLit, Ref("x")>>))
Ret11 == ReturnStatement(NamedTupleExpression("Int", <<IntLit, IntLit>>))

\* let o x { let n y = o x }
LetO == LetDeclaration("o", <<"x">>, Null,
          BlockBody(<<LetDeclaration("n", <<"y">>, Null,
                        ExprBody(CallExpression(Ref("o"), <<Ref("x")>>)))>>))

\* let t x : Int { if True { let b = x  return x } }
LetT == LetDeclaration("t", <<"x">>, TypeAssert(ReferenceTypeExpression("Int")),
          BlockBody(<<IfStatement(<<IfStatementCase(Ref("True"),
                        <<LetDeclaration("b", <<>>, Null, ExprBody(Ref("x"))),
                          ReturnStatement(Ref("x"))>>)>>)>>))

\* struct S
StructS == StructDeclaration("S")

\* let h x y = <the statements, one per line>
LetH(elements) == LetDeclaration("h", <<"x", "y">>, Null, BlockBody(elements))

\* The top-level statements: id 1, id "s", f 1, g 1, h, n
Id1 == Stmt(CallExpression(Ref("id"), <<IntLit>>))
IdS == Stmt(CallExpression(Ref("id"), <<StrLit>>))
F1 == Stmt(CallExpression(Ref("f"), <<IntLit>>))
G1 == Stmt(CallExpression(Ref("g"), <<IntLit>>))
UseH == Stmt(Ref("h"))
UseN == Stmt(Ref("n"))
\* if True { return }
IfReturn == IfStatement(<<IfStatementCase(Ref("True"), <<Return>>)>>)
\* Int(1) + 1
Int1Plus1 == Stmt(InfixExpression(NamedTupleExpression("Int", <<IntLit>>), "+", IntLit))

\* The elements a file is made of: declarations, then statements.
PoolSeq == <<
  LetId, LetF, LetR, LetG, LetO, LetT, StructS,
  LetH(<<YEqS, XEq1, XEqY>>),
  LetH(<<XY, YX>>),
  LetH(<<X12, XY, YX>>),
  LetH(<<X12, XY, Y1>>),
  LetH(<<XX>>),
  LetH(<<RetSX, Ret11>>),
  LetH(<<XEqX>>),
  LetH(<<Return, Return>>),
  Id1, IdS, F1, G1, UseH, UseN, Int1Plus1, IfReturn
>>

Pool == Range(PoolSeq)

\* The files of n elements that list elements of the pool in pool order.
Ordered(n) ==
  {[i \in 1..n |-> PoolSeq[f[i]]] :
     f \in {g \in [1..n -> DOMAIN PoolSeq] :
              \A i \in 1..n : \A j \in 1..n : i < j => g[i] <= g[j]}}

\* let Q { u = z } = 1
LetStructZ ==
  LetPattern(StructPattern("Q", <<StructPatternField("u", BindPattern("z"))>>),
             <<>>, ExprBody(IntLit))

\* let v = z
LetUseZ == LetDeclaration("v", <<>>, Null, ExprBody(Ref("z")))

\* let w P { y = z } = z
LetParamZ ==
  LetPattern(BindPattern("w"),
             <<StructPattern("P", <<StructPatternField("y", BindPattern("z"))>>)>>,
             ExprBody(Ref("z")))

\* The declarations with a StructPattern, and a use of the name one binds.
PatternPool == {LetStructZ, LetUseZ, LetParamZ}

\* The files checked: every file of fewer than MaxElements elements of the
\* pool, the files of MaxElements elements in pool order, and every file
\* of fewer than MaxElements elements of the pattern pool.
Programs ==
  UNION {[1..n -> Pool] : n \in 0..(MaxElements - 1)}
    \cup Ordered(MaxElements)
    \cup UNION {[1..n -> PatternPool] : n \in 1..(MaxElements - 1)}

----------------------------------------------------------------------------
(* The state machine.                                                      *)

State ==
  [nextTypeVarId |-> nextTypeVarId, contexts |-> contexts, frames |-> frames,
   typeVars |-> typeVars, constraints |-> constraints, nodeType |-> nodeType,
   diagnostics |-> diagnostics, error |-> error, log |-> log]

Commit(K) ==
  /\ nextTypeVarId' = K.nextTypeVarId
  /\ contexts' = K.contexts
  /\ frames' = K.frames
  /\ typeVars' = K.typeVars
  /\ constraints' = K.constraints
  /\ nodeType' = K.nodeType
  /\ diagnostics' = K.diagnostics
  /\ error' = K.error
  /\ log' = K.log

\* No check is running.
NoChecker ==
  /\ program = <<>>
  /\ groups = <<>>
  /\ gi = 0
  /\ ni = 0
  /\ ei = 0
  /\ nextTypeVarId = 0
  /\ contexts = <<>>
  /\ frames = <<>>
  /\ typeVars = <<>>
  /\ constraints = <<>>
  /\ nodeType = <<>>
  /\ diagnostics = <<>>
  /\ solution = EmptySub
  /\ queue = <<>>
  /\ error = ""
  /\ log = <<>>

NoScope == scope = Null /\ lookedUp = Null
NoParser == tokens = <<>> /\ tree = Null
NoPosition == position = Null /\ advanced = Null

Init ==
  /\ NoScope
  /\ NoParser
  /\ NoPosition
  /\ program \in Programs
  /\ pc = "start"
  /\ groups = <<>>
  /\ gi = 0
  /\ ni = 0
  /\ ei = 0
  /\ nextTypeVarId = 0
  /\ contexts = <<>>
  /\ frames = <<>>
  /\ typeVars = <<>>
  /\ constraints = <<>>
  /\ nodeType = <<>>
  /\ diagnostics = <<>>
  /\ solution = EmptySub
  /\ queue = <<>>
  /\ error = ""
  /\ log = [allocated |-> <<>>, emitted |-> <<>>, instances |-> <<>>,
            unified |-> <<>>, stacks |-> <<>>, refs |-> <<>>]

\* After a step of check that ended in state K: where check continues.
Goto(K, next) == pc' = IF K.error # "" THEN "threw" ELSE next

\* A step of check ended in state K and check continues at next.
Continue(K, next) == Commit(K) /\ Goto(K, next)

\* check from line 799 on, with the groups strongconnect yields.
StartWith(grps) ==
  /\ Continue(CheckStart(State, grps),
              IF grps = <<>> THEN "toplevel" ELSE "declare")
  /\ groups' = grps

\* check from line 799 on, with the graph computeReferenceGraph built; a
\* throw of computeReferenceGraph ends check before any group is made.
StartGraph(G) ==
  IF G.error # ""
  THEN /\ Continue(Throw(CheckStart(State, <<>>), G.error), "declare")
       /\ groups' = <<>>
  ELSE StartWith(StrongConnect(G))

\* check up to the loop over the groups
Start ==
  /\ pc = "start"
  /\ StartGraph(ComputeReferenceGraph(program))
  /\ gi' = 1
  /\ ni' = 1
  /\ ei' = 1
  /\ UNCHANGED <<program, solution, queue>>
  /\ UNCHANGED <<scopeVars, parserVars, positionVars>>

\* The last declaration of the group is being processed.
LastOfGroup == ni = Len(groups[gi])

\* one iteration of the first loop over the group
Declare ==
  /\ pc = "declare"
  /\ Continue(DeclareNode(State, program, groups[gi][ni], gi),
              IF LastOfGroup THEN "bodies" ELSE "declare")
  /\ ni' = IF LastOfGroup THEN 1 ELSE ni + 1
  /\ UNCHANGED <<program, groups, gi, ei, solution, queue>>
  /\ UNCHANGED <<scopeVars, parserVars, positionVars>>

\* one iteration of the second loop over the group
Body ==
  /\ pc = "bodies"
  /\ Continue(InferBody(State, program, groups[gi][ni]),
              IF LastOfGroup THEN "endgroup" ELSE "bodies")
  /\ ni' = IF LastOfGroup THEN 1 ELSE ni + 1
  /\ UNCHANGED <<program, groups, gi, ei, solution, queue>>
  /\ UNCHANGED <<scopeVars, parserVars, positionVars>>

\* the third loop over the group, and on to the next group
EndGroup ==
  /\ pc = "endgroup"
  /\ Commit(DeleteTypes(State, groups[gi]))
  /\ gi' = gi + 1
  /\ pc' = IF gi = Len(groups) THEN "toplevel" ELSE "declare"
  /\ UNCHANGED <<program, groups, ni, ei, solution, queue>>
  /\ UNCHANGED <<scopeVars, parserVars, positionVars>>

\* one iteration of the loop over the elements of the file
TopLevel ==
  /\ pc = "toplevel"
  /\ ei <= Len(program)
  /\ Continue(InferElement(State, program, ei), "toplevel")
  /\ ei' = ei + 1
  /\ UNCHANGED <<program, groups, gi, ni, solution, queue>>
  /\ UNCHANGED <<scopeVars, parserVars, positionVars>>

\* solve is called on the root constraints when popContext returned.
CallSolve(K) ==
  /\ Continue(K, "solve")
  /\ queue' = IF K.error # "" THEN queue ELSE <<CMany(constraints[RootSet])>>

\* popContext(context) and the call of solve on the root constraints
EndCheck ==
  /\ pc = "toplevel"
  /\ ei > Len(program)
  /\ CallSolve(PopContext(State, RootFrame))
  /\ UNCHANGED <<program, groups, gi, ni, ei, solution>>
  /\ UNCHANGED <<scopeVars, parserVars, positionVars>>

\* The solver state unify starts from.
SolverState ==
  [solution |-> solution, diagnostics |-> diagnostics, sets |-> <<>>,
   bound |-> <<>>, ok |-> TRUE, error |-> ""]

\* What solve did with the Equal constraint c, for the history.
Outcome(c, U) ==
  [constraint |-> c, ok |-> U.ok,
   resolved |-> <<Resolve(c.left, solution), Resolve(c.right, solution)>>,
   added |-> SubSeq(U.diagnostics, Len(diagnostics) + 1, Len(U.diagnostics)),
   bound |-> U.bound, sets |-> U.sets]

\* The Equal case of solve ended in the solver state U.
Solved(c, U) ==
  /\ solution' = U.solution
  /\ diagnostics' = U.diagnostics
  /\ error' = U.error
  /\ log' = [log EXCEPT !.unified = Append(@, Outcome(c, U))]
  /\ pc' = IF U.error # "" THEN "threw"
           ELSE IF Len(queue) = 1 THEN "done" ELSE "solve"

\* The constraint solve pops.
Popped == queue[Len(queue)]

\* The worklist without the popped constraint.
Rest == SubSeq(queue, 1, Len(queue) - 1)

\* one iteration of the loop of solve (lines 905-934)
SolveStep ==
  /\ pc = "solve"
  /\ IF Popped.kind = "Many"
     THEN /\ queue' = Rest \o Popped.elements
          /\ pc' = IF queue' = <<>> THEN "done" ELSE "solve"
          /\ UNCHANGED <<solution, diagnostics, error, log>>
     ELSE /\ queue' = Rest
          /\ Solved(Popped, SolveEqual(Popped, SolverState))
  /\ UNCHANGED <<program, groups, gi, ni, ei, nextTypeVarId, contexts, frames,
                 typeVars, constraints, nodeType>>
  /\ UNCHANGED <<scopeVars, parserVars, positionVars>>

Next ==
  \/ Start
  \/ Declare
  \/ Body
  \/ EndGroup
  \/ TopLevel
  \/ EndCheck
  \/ SolveStep

Spec == Init /\ [][Next]_vars

----------------------------------------------------------------------------
(* Properties.                                                             *)

Emitted == Range(log.emitted)
Unified == Range(log.unified)
Failures == {"ArityMismatch", "UnificationFailed"}
Returned == pc = "done"

\* The element sequences of the scenarios.
UnusedArityError == <<LetF, LetR>>
Inconsistent == <<LetH(<<YEqS, XEq1, XEqY>>), UseH>>
MutualApplication == <<LetH(<<XY, YX>>), UseH>>
FailureOnCycle == <<LetH(<<X12, XY, YX>>), UseH>>
ArityThenBinding == <<LetH(<<X12, XY, Y1>>), UseH>>
SelfApplication == <<LetH(<<XX>>), UseH>>
ClashingTuples == <<LetH(<<RetSX, Ret11>>), UseH>>

\* C1: when check returns, every Equal constraint emitted during the walk
\* (whatever frame it was attached to) has been unified by solve, and the
\* file `let f x y = x + y; let r = f 1` has at least one ArityMismatch or
\* UnificationFailed diagnostic.
C1_EveryConstraintUnified ==
  Returned =>
    /\ \A e \in Emitted : \E u \in Unified : u.constraint = e.constraint
    /\ program = UnusedArityError =>
         \E i \in DOMAIN diagnostics : diagnostics[i].kind \in Failures

\* check returned for `let f x y = x + y; let r = f 1`: the call constraint
\* of `f 1` was emitted outside the root frame, solve unified nothing and
\* there is no diagnostic.
C1_Unsolved ==
  /\ Returned
  /\ program = UnusedArityError
  /\ \E e \in Emitted : e.set # RootSet /\ e.constraint.node = LetR.body.expression
  /\ Unified = {}
  /\ diagnostics = <<>>

\* Structural equality up to positions holding Any and up to the coercion
\* of a zero-argument arrow to its return type.
RECURSIVE Agree(_, _)
Agree(l, r) ==
  IF l.kind = "Any" \/ r.kind = "Any" THEN TRUE
  ELSE IF l.kind = "Arrow" /\ r.kind = "Arrow" /\ Len(l.paramTypes) = Len(r.paramTypes)
  THEN /\ \A i \in DOMAIN l.paramTypes : Agree(l.paramTypes[i], r.paramTypes[i])
       /\ Agree(l.returnType, r.returnType)
  ELSE IF l.kind = "Arrow" /\ l.paramTypes = <<>> THEN Agree(l.returnType, r)
  ELSE IF r.kind = "Arrow" /\ r.paramTypes = <<>> THEN Agree(l, r.returnType)
  ELSE IF l.kind = "Con" /\ r.kind = "Con"
  THEN /\ l.id = r.id
       /\ Len(l.argTypes) = Len(r.argTypes)
       /\ \A i \in DOMAIN l.argTypes : Agree(l.argTypes[i], r.argTypes[i])
  ELSE l = r

Substitutable(c, sub) ==
  ~SubstituteOverflows(c.left, sub) /\ ~SubstituteOverflows(c.right, sub)

\* A root constraint for which solve emitted no diagnostic.
Accepted(u) == u.ok /\ u.added = <<>>

\* C2: when solve has completed, the final solution makes the two sides of
\* every root constraint that got no diagnostic structurally equal (up to
\* Any and the zero-argument-arrow coercion): the constraints of
\* `y == "s"; x == 1; x == y` cannot all be accepted.
C2_SolverSound ==
  Returned =>
    \A u \in Unified :
      Accepted(u) /\ Substitutable(u.constraint, solution) =>
        Agree(Substitute(u.constraint.left, solution),
              Substitute(u.constraint.right, solution))

\* solve completed on the inconsistent body without any diagnostic, and the
\* final solution leaves an accepted constraint with Int against String.
C2_InconsistentAccepted ==
  /\ Returned
  /\ program = Inconsistent
  /\ diagnostics = <<>>
  /\ \E u \in Unified :
       /\ Accepted(u)
       /\ LET l == Substitute(u.constraint.left, solution)
              r == Substitute(u.constraint.right, solution)
          IN l.kind = "Arrow" /\ r.kind = "Arrow"
             /\ \E i \in DOMAIN l.paramTypes :
                  {l.paramTypes[i], r.paramTypes[i]} = {intType, stringType}

\* C3: at every moment of solve no variable of the solution is mapped to a
\* type in which that variable occurs, and no solution.set(v, t) was called
\* with a t that contains v.
C3_OccursSafety ==
  /\ \A v \in DOMAIN solution : ~HasTypeVar(solution[v], TVar(v))
  /\ \A u \in Unified : \A i \in DOMAIN u.sets :
       u.sets[i].tv \notin GetTypeVars(u.sets[i].type)

\* solve met x ~ (x) -> r, where the variable occurs in the arrow: unify
\* refused to bind it.
C3_OccursRefused ==
  /\ program = SelfApplication
  /\ \E u \in Unified :
       /\ ~u.ok
       /\ u.sets = <<>>
       /\ u.resolved[1].kind = "Var"
       /\ u.resolved[2].kind = "Arrow"
       /\ HasTypeVar(u.resolved[2], u.resolved[1])

\* The types of the check: its variables and the sides of its constraints.
CheckTypes ==
  {TVar(v) : v \in Range(log.allocated)}
    \cup {e.constraint.left : e \in Emitted}
    \cup {e.constraint.right : e \in Emitted}

\* C4: when solve has completed, substituting the solution into a type of the
\* check gives a result, and substituting the solution into that result
\* gives the same type again.
C4_SubstituteIdempotent ==
  Returned =>
    \A t \in CheckTypes :
      /\ ~SubstituteOverflows(t, solution)
      /\ Substitute(Substitute(t, solution), solution) = Substitute(t, solution)

\* solve completed on `x y; y x` without a diagnostic and left a solution in
\* which two variables are bound to arrows over each other.
C4_CyclicSolution ==
  /\ Returned
  /\ program = MutualApplication
  /\ diagnostics = <<>>
  /\ \E v, w \in DOMAIN solution :
       /\ v # w
       /\ HasTypeVar(solution[v], TVar(w))
       /\ HasTypeVar(solution[w], TVar(v))

\* The elements are `let id x = x` and uses of id at Int and at String.
PolymorphicUses ==
  /\ \E i \in DOMAIN program : program[i] = LetId
  /\ \A i \in DOMAIN program : program[i] \in {LetId, Id1, IdS}

\* C5: the variables an instantiate call allocates are distinct from each
\* other, from every variable allocated before the call and from the
\* variables of every other instantiate call; using `let id x = x` at Int
\* and at String from top-level statements yields no diagnostic.
C5_InstantiationFresh ==
  /\ \A i \in DOMAIN log.instances :
       LET I == log.instances[i]
       IN /\ Range(I.fresh) \cap I.allocated = {}
          /\ \A a, b \in DOMAIN I.fresh : a # b => I.fresh[a] # I.fresh[b]
          /\ \A j \in DOMAIN log.instances :
               j # i => Range(I.fresh) \cap Range(log.instances[j].fresh) = {}
  /\ Returned /\ PolymorphicUses => diagnostics = <<>>

\* `let id x = x; id 1; id "s"` was checked: the scheme of id was
\* instantiated twice, one instance was bound to Int and the other to
\* String, and there is no diagnostic.
C5_TwoInstances ==
  /\ Returned
  /\ program = <<LetId, Id1, IdS>>
  /\ diagnostics = <<>>
  /\ \E i, j \in DOMAIN log.instances :
       /\ i # j
       /\ log.instances[i].tvs = log.instances[j].tvs
       /\ log.instances[i].tvs # <<>>
       /\ \E v \in Range(log.instances[i].fresh), w \in Range(log.instances[j].fresh) :
            /\ v \in DOMAIN solution /\ w \in DOMAIN solution
            /\ Substitute(TVar(v), solution) = intType
            /\ Substitute(TVar(w), solution) = stringType

\* The number of ReferenceExpressions with the name in a node.
RECURSIVE RefCount(_, _)
RECURSIVE RefCountAll(_, _, _)
RefCountAll(nodes, i, name) ==
  IF i > Len(nodes) THEN 0
  ELSE RefCount(nodes[i], name) + RefCountAll(nodes, i + 1, name)

RefCount(node, name) ==
  CASE node.kind = "ReferenceExpression" -> IF node.name = name THEN 1 ELSE 0
    [] node.kind = "CallExpression" ->
         RefCount(node.func, name) + RefCountAll(node.args, 1, name)
    [] node.kind = "InfixExpression" ->
         RefCount(node.left, name) + RefCount(node.right, name)
    [] node.kind \in {"ExpressionStatement", "ExprBody"} ->
         RefCount(node.expression, name)
    [] node.kind = "BlockBody" -> RefCountAll(node.elements, 1, name)
    [] node.kind = "LetDeclaration" -> RefCount(node.body, name)
    [] OTHER -> 0

ReferenceNames == {"id", "f", "r", "g", "h", "frobnicate"}

\* The name is declared nowhere in the file and is no builtin.
Unbound(name) ==
  /\ ScopeLookup(program, <<>>, name, SymkindAny) = Null
  /\ name \notin BuiltinNames

NotFound(name) ==
  {i \in DOMAIN diagnostics :
     diagnostics[i].kind = "BindingNotFound" /\ diagnostics[i].name = name}

AnySided(c) == c.left.kind = "Any" \/ c.right.kind = "Any"

Inferred == pc \in {"solve", "done"}

\* C6: once the file is walked, each reference to a name without binding
\* has exactly one BindingNotFound diagnostic; the call of such a name was
\* given the type Any for the callee; the `+` of `frobnicate x + 1` and
\* every top-level call statement still emitted their constraint; and solve
\* adds no diagnostic for a constraint with Any on one side.
C6_UnknownNameRecovery ==
  /\ Inferred =>
       /\ \A name \in ReferenceNames :
            Unbound(name) =>
              Cardinality(NotFound(name)) = RefCountAll(program, 1, name)
       /\ \A e \in Emitted :
            LET node == e.constraint.node
                call == /\ node.kind = "CallExpression"
                        /\ Unbound(node.func.name)
                        /\ e.constraint.right.kind = "Arrow"
            IN call => e.constraint.left = TAny
       /\ \A i \in DOMAIN program :
            /\ program[i] = LetG =>
                 \E e \in Emitted : e.constraint.node = LetG.body.expression
            /\ (program[i].kind = "ExpressionStatement" /\
                  program[i].expression.kind = "CallExpression") =>
                 \E e \in Emitted :
                   e.set = RootSet /\ e.constraint.node = program[i].expression
  /\ \A u \in Unified : AnySided(u.constraint) => Accepted(u)

\* `let g x = frobnicate x + 1; g 1` was checked: the only diagnostic is the
\* BindingNotFound of frobnicate, and solve accepted a constraint with Any
\* against an arrow.
C6_Recovered ==
  /\ Returned
  /\ program = <<LetG, G1>>
  /\ Len(diagnostics) = 1
  /\ diagnostics[1].kind = "BindingNotFound"
  /\ diagnostics[1].name = "frobnicate"
  /\ \E u \in Unified :
       /\ u.constraint.left = TAny
       /\ u.constraint.right.kind = "Arrow"
       /\ Accepted(u)

\* C7: check never throws: no RangeError, no failed assertion, no exhausted
\* memory, whatever unification failures occur.
C7_CheckReturns == pc # "threw" /\ error = ""

\* solve threw on `x 1 1; x y; y x`: after an ArityMismatch the failing
\* types were substituted under a solution with a cycle.
C7_Overflow ==
  /\ pc = "threw"
  /\ error = "RangeError"
  /\ program = FailureOnCycle
  /\ Cyclic(solution)
  /\ \E u \in Unified : ~u.ok /\ ~Substitutable(u.constraint, solution)

\* C8: a type carried by a UnificationFailed or ArityMismatch diagnostic
\* contains no variable that the solution binds when the diagnostic is
\* emitted.
C8_DiagnosticsSubstituted ==
  \A u \in Unified : \A i \in DOMAIN u.added :
    LET d == u.added[i]
    IN d.kind \in Failures =>
         (GetTypeVars(d.left) \cup GetTypeVars(d.right)) \cap u.bound[i] = {}

\* solve emitted an ArityMismatch on `x 1 1; x y; y 1` whose left arrow has
\* a parameter that is a variable bound in the solution.
C8_BoundVariableReported ==
  /\ program = ArityThenBinding
  /\ \E u \in Unified :
       /\ u.added # <<>>
       /\ u.added[1].kind = "ArityMismatch"
       /\ GetTypeVars(u.added[1].left) \cap u.bound[1] # {}

\* The two sides of the constraint resolved to arrows of different arity.
ArityCase(u) ==
  /\ u.resolved[1].kind = "Arrow"
  /\ u.resolved[2].kind = "Arrow"
  /\ Len(u.resolved[1].paramTypes) # Len(u.resolved[2].paramTypes)

\* C9: a root constraint whose sides resolve to arrows of different arity
\* gets exactly one diagnostic, an ArityMismatch, and binds no variable; the
\* root constraints after it are unified all the same.
C9_ArityMismatchOnce ==
  /\ \A u \in Unified :
       ArityCase(u) =>
         /\ Len(u.added) = 1
         /\ u.added[1].kind = "ArityMismatch"
         /\ u.sets = <<>>
  /\ Returned =>
       \A e \in Emitted :
         e.set = RootSet => \E u \in Unified : u.constraint = e.constraint

\* `let f x y = x + y; f 1` was checked: the constraint of the call has an
\* ArityMismatch and a UnificationFailed diagnostic.
C9_TwoDiagnostics ==
  /\ Returned
  /\ program = <<LetF, F1>>
  /\ \E u \in Unified :
       /\ ArityCase(u)
       /\ u.constraint.node = F1.expression
       /\ Len(u.added) = 2
       /\ u.added[1].kind = "ArityMismatch"
       /\ u.added[2].kind = "UnificationFailed"
       /\ u.sets = <<>>

\* C10: the ids createTypeVar returns are strictly increasing in the order
\* of the calls, across instantiate calls and declaration groups.
C10_MonotonicIds ==
  \A i, j \in DOMAIN log.allocated :
    i < j => log.allocated[i] < log.allocated[j]

\* Variables were allocated for two declaration groups and by two
\* instantiate calls.
C10_ManyAllocations ==
  /\ Returned
  /\ Len(groups) >= 2
  /\ \E i, j \in DOMAIN log.instances :
       i # j /\ log.instances[i].fresh # <<>> /\ log.instances[j].fresh # <<>>
  /\ Len(log.allocated) >= 8

ConstraintVars(c) == GetTypeVars(c.left) \cup GetTypeVars(c.right)

\* C11: at every point of check, a constraint stored in the constraint set
\* of a non-root frame has a variable of that frame's typeVars on one of its
\* sides, and a constraint emitted with no variable of any non-root frame
\* on the stack is stored in the root frame.
C11_ConstraintPlacement ==
  /\ \A g \in DOMAIN constraints \ {RootSet} :
       \A i \in DOMAIN constraints[g] :
         ConstraintVars(constraints[g][i]) \cap typeVars[g] # {}
  /\ \A e \in Emitted :
       ConstraintVars(e.constraint) \cap e.stackVars = {} => e.set = RootSet

\* Inside the body of `let k x = if True { return x }` the constraint
\* Bool ~ Bool of the test went to the root frame and the constraint of the
\* return statement went to the frame of the declaration.
C11_BothPlacements ==
  /\ \E e \in Emitted :
       /\ e.set = RootSet
       /\ e.stackVars # {}
       /\ ConstraintVars(e.constraint) = {}
       /\ e.constraint.node = Ref("True")
  /\ \E e \in Emitted :
       /\ e.set # RootSet
       /\ e.constraint.node.kind = "ReturnStatement"
       /\ e.constraint \in Range(constraints[e.set])

----------------------------------------------------------------------------
(* Name resolution.                                                        *)

\* The paths of the LetDeclarations among the elements, whose paths start
\* with base, and in the block bodies, if-cases and modules below them.
RECURSIVE LetPaths(_, _)
LetPaths(elements, base) ==
  UNION {LET node == elements[j]
             path == Append(base, j)
         IN CASE node.kind = "LetDeclaration" ->
                   {path} \cup (IF node.body.kind = "BlockBody"
                                THEN LetPaths(node.body.elements, path) ELSE {})
              [] node.kind = "IfStatement" ->
                   UNION {LetPaths(node.cases[c].elements, Append(path, -c)) :
                            c \in DOMAIN node.cases}
              [] node.kind = "ModuleDeclaration" ->
                   LetPaths(node.elements, path)
              [] OTHER -> {}
         : j \in DOMAIN elements}

\* The nodes of a file that carry a Scope: the SourceFile and every
\* LetDeclaration in it.
ScopeOwners(file) == {<<>>} \cup LetPaths(file, <<>>)

\* The names some scope of the file declares, and one that none declares.
LookupNames(file) ==
  {"frobnicate"}
    \cup UNION {{e.name : e \in Range(ScopeEntries(file, o))} : o \in ScopeOwners(file)}

\* The kind masks a lookup is made with.
LookupKinds == {{SymVar}, {SymType}, SymkindAny}

\* The entries, among those of one scope, that a lookup matches.
Matching(entries, name, expectedKind) ==
  {i \in DOMAIN entries :
     entries[i].name = name /\ entries[i].kind \in expectedKind}

\* The mappings of the scopes from the root down to owner: the scopes of
\* the SourceFile and of the LetDeclarations that enclose owner, outermost
\* first, and the scope of owner last.
RECURSIVE ScopeChain(_, _)
ScopeChain(file, owner) ==
  IF owner = <<>> THEN <<ScopeEntries(file, <<>>)>>
  ELSE LET up == SubSeq(owner, 1, Len(owner) - 1)
           rest == ScopeChain(file, up)
       IN IF owner[Len(owner)] > 0
             /\ NodeAt(file, owner).kind = "LetDeclaration"
          THEN Append(rest, ScopeEntries(file, owner))
          ELSE rest

\* What the claim says lookup returns: the first matching entry of the
\* innermost scope of the chain that has one, Null when none has.
Innermost(chain, name, expectedKind) ==
  LET having == {n \in DOMAIN chain : Matching(chain[n], name, expectedKind) # {}}
  IN IF having = {} THEN Null
     ELSE LET inner == chain[CHOOSE n \in having : \A q \in having : q <= n]
              hits == Matching(inner, name, expectedKind)
          IN inner[CHOOSE i \in hits : \A j \in hits : i <= j].decl

\* lookup from the scope anchored at owner agrees with the claim on every
\* name and kind mask; chain is ScopeChain(file, owner).
LookupAgrees(file, owner, chain) ==
  \A name \in LookupNames(file) :
    \A expectedKind \in LookupKinds :
      ScopeLookup(file, owner, name, expectedKind)
        = Innermost(chain, name, expectedKind)

\* C12: Scope.lookup(name, expectedKind) returns the declaration of the
\* first entry, in insertion order, whose kind intersects expectedKind, in
\* the innermost scope on the chain from the starting scope to the root
\* that has such an entry, and null exactly when no scope on the chain has
\* one: an inner declaration shadows an outer one, and within a scope the
\* first of several declarations of a name wins.  Resolution depends on
\* the file alone, which check never changes: it is compared where check
\* ends.
C12_LookupInnermostFirst ==
  pc \in {"done", "threw"} =>
    \A owner \in ScopeOwners(program) :
      LookupAgrees(program, owner, ScopeChain(program, owner))

\* check looked names up in a file where the parameter x of o shadows the
\* x the SourceFile scope holds twice, where n is found one scope up from
\* its own body, and where frobnicate is found nowhere.
C12_Shadowing ==
  /\ pc = "done"
  /\ Len(program) = 2
  /\ program[1] = LetId
  /\ program[2] = LetO
  /\ Cardinality(Matching(ScopeEntries(program, <<>>), "x", SymkindAny)) = 2
  /\ ScopeLookup(program, <<>>, "x", SymkindAny) = ParamTarget(<<1>>, 1)
  /\ ScopeLookup(program, <<2, 1>>, "x", SymkindAny) = ParamTarget(<<2>>, 1)
  /\ ScopeLookup(program, <<2, 1>>, "n", SymkindAny) = LetTarget(<<2, 1>>)
  /\ ScopeLookup(program, <<2, 1>>, "frobnicate", SymkindAny) = Null
  /\ ScopeLookup(program, <<2, 1>>, "x", {"Type"}) = Null
----------------------------------------------------------------------------
(* The order of the groups.                                                *)

\* The group a declaration belongs to.
GroupOf(v) == CHOOSE g \in DOMAIN groups : v \in Range(groups[g])

\* The declarations from whose scope the name resolves to a LetDeclaration.
ResolvingToLet(name) ==
  {u \in ScopeOwners(program) \ {<<>>} :
     ScopeLookup(program, u, name, SymkindAny).kind = "LetDeclaration"}

\* The names that the scope around the declaration v resolves to v.
DeclaredNames(v) ==
  LET entries == ScopeEntries(program, ScopeParent(program, v))
  IN {entries[i].name : i \in {j \in DOMAIN entries : entries[j].decl = LetTarget(v)}}

\* The edges leaving u, in a state where the body of u is about to be
\* inferred, lead to a declaration of the same group or to one of an
\* earlier group whose names the root environment binds.
EdgesLeadBack(G, u) ==
  \A i \in DOMAIN G.edges :
    (G.edges[i][1] = u /\ GroupOf(G.edges[i][2]) # gi)
      => /\ GroupOf(G.edges[i][2]) < gi
         /\ G.edges[i][2] \notin DOMAIN nodeType
         /\ DeclaredNames(G.edges[i][2]) \subseteq DOMAIN frames[RootFrame].env

\* C13: for every edge u -> v of the reference graph whose ends lie in
\* different groups, the group of v was processed (its type allocated, its
\* scheme bound in the root environment) before the body of u is inferred,
\* and no BindingNotFound diagnostic names a declaration that some
\* declaration of the file resolves to a LetDeclaration.
C13_GroupOrdering ==
  /\ pc = "bodies" => EdgesLeadBack(ComputeReferenceGraph(program), groups[gi][ni])
  /\ \A i \in DOMAIN diagnostics :
       diagnostics[i].kind = "BindingNotFound"
         => ResolvingToLet(diagnostics[i].name) = {}

\* check returned for  let Q { u = z } = 1; let v = z : the group of Q was
\* processed before the group of v, the root environment does not bind z,
\* and the reference to z in the body of v got a BindingNotFound.
C13_PatternNeverBound ==
  /\ pc = "done"
  /\ program = <<LetStructZ, LetUseZ>>
  /\ groups = << << <<1>> >>, << <<2>> >> >>
  /\ ScopeLookup(program, <<2>>, "z", SymkindAny) = LetTarget(<<1>>)
  /\ "z" \notin DOMAIN frames[RootFrame].env
  /\ \E i \in DOMAIN diagnostics :
       diagnostics[i].kind = "BindingNotFound" /\ diagnostics[i].name = "z"
----------------------------------------------------------------------------
(* The calls of solution.set.                                              *)

\* The calls of solution.set solve made so far, in order.
SetCalls == Flatten([i \in DOMAIN log.unified |-> log.unified[i].sets])

\* C14: during one solve, solution.set is called at most once for any
\* variable id, so no binding is overwritten by a later constraint.
C14_SetOncePerVariable ==
  \A i \in DOMAIN SetCalls : \A j \in DOMAIN SetCalls :
    SetCalls[i].tv = SetCalls[j].tv => i = j

\* solve ended for  let h x y { y == "s"; x == 1; x == y }; h  and set
\* was called twice for one variable, the second time with another type
\* than the first.
C14_Rebound ==
  /\ pc = "done"
  /\ program = Inconsistent
  /\ \E i \in DOMAIN SetCalls : \E j \in DOMAIN SetCalls :
       /\ i < j
       /\ SetCalls[i].tv = SetCalls[j].tv
       /\ SetCalls[i].type # SetCalls[j].type
       /\ solution[SetCalls[j].tv] = SetCalls[j].type
----------------------------------------------------------------------------
(* Failures inside compound types.                                         *)

\* unify compares the two types subterm by subterm: two arrows of equal
\* arity, or two constructors with the same id and as many arguments.
Compound(l, r) ==
  \/ /\ l.kind = "Arrow"
     /\ r.kind = "Arrow"
     /\ Len(l.paramTypes) = Len(r.paramTypes)
  \/ /\ l.kind = "Con"
     /\ r.kind = "Con"
     /\ l.id = r.id
     /\ Len(l.argTypes) = Len(r.argTypes)

\* The pairs of subterms of a compound comparison, in the order of unify.
Pairs(l, r) ==
  IF l.kind = "Arrow"
  THEN [i \in 1..(Len(l.paramTypes) + 1) |->
          IF i <= Len(l.paramTypes) THEN <<l.paramTypes[i], r.paramTypes[i]>>
          ELSE <<l.returnType, r.returnType>>]
  ELSE [i \in DOMAIN l.argTypes |-> <<l.argTypes[i], r.argTypes[i]>>]

\* The pair was never unified: one side is a variable the solution still
\* does not bind although the other side holds no variable at all.
NeverUnified(a, b) ==
  \/ a.kind = "Var" /\ a.id \notin DOMAIN solution /\ GetTypeVars(b) = {}
  \/ b.kind = "Var" /\ b.id \notin DOMAIN solution /\ GetTypeVars(a) = {}

\* The pair cannot be unified: two constructors with different ids.
Clash(a, b) == a.kind = "Con" /\ b.kind = "Con" /\ a.id # b.id

\* C15: when unify compares two compound types, a failing pair of
\* subterms does not stop it: every pair of subterms is unified, its
\* bindings reach the solution, and the comparison as a whole fails.
C15_CompoundContinues ==
  \A u \in Unified :
    Compound(u.resolved[1], u.resolved[2]) =>
      \A i \in DOMAIN Pairs(u.resolved[1], u.resolved[2]) :
        LET pair == Pairs(u.resolved[1], u.resolved[2])[i] IN
        /\ ~NeverUnified(pair[1], pair[2])
        /\ Clash(pair[1], pair[2]) => ~u.ok

\* solve ended for  let h x y { return Int("s", x); return Int(1, 1) }; h :
\* Int(1, 1) was compared with Int("s", x'), the first pair of arguments
\* failed, and x' of the second pair was left without binding.
C15_ArgumentsSkipped ==
  /\ pc = "done"
  /\ program = ClashingTuples
  /\ \E u \in Unified :
       /\ ~u.ok
       /\ u.sets = <<>>
       /\ u.resolved[1] = TCon(1, <<intType, intType>>, "Int")
       /\ u.resolved[2].kind = "Con"
       /\ u.resolved[2].id = 1
       /\ u.resolved[2].argTypes[1] = stringType
       /\ NeverUnified(intType, u.resolved[2].argTypes[2])
----------------------------------------------------------------------------
(* The occurs check.                                                       *)

\* The constraint of the entry failed the occurs check of line 948: after
\* the resolution of both sides, unify held a variable on one side and a
\* type containing that variable on the other.
FailedOccursCheck(u) ==
  LET l == u.resolved[1]
      r == u.resolved[2]
  IN IF l.kind = "Var" THEN HasTypeVar(r, l)
     ELSE r.kind = "Var" /\ HasTypeVar(l, r)

\* C16: when a constraint fails the occurs check in unify, no binding is
\* added to the solution and no diagnostic of any kind is added for that
\* constraint.
C16_OccursFailureSilent ==
  \A u \in Unified :
    FailedOccursCheck(u) => u.sets = <<>> /\ u.added = <<>>

\* solve ended for  let h x y { x x }; h : the constraint x' ~ (x') -> r'
\* failed the occurs check, nothing was bound, and solve added a
\* UnificationFailed diagnostic for the node of that constraint.
C16_OccursReported ==
  /\ pc = "done"
  /\ program = SelfApplication
  /\ \E u \in Unified :
       /\ FailedOccursCheck(u)
       /\ ~u.ok
       /\ u.sets = <<>>
       /\ Len(u.added) = 1
       /\ u.added[1].kind = "UnificationFailed"
       /\ u.added[1].node = u.constraint.node
       /\ u.added[1] \in Range(diagnostics)
----------------------------------------------------------------------------
(* The context stack.                                                      *)

\* The context stack after each push and pop of check, in order.
Stacks == log.stacks

\* t is s with one frame pushed on top.
PushedOnto(s, t) == Len(t) = Len(s) + 1 /\ SubSeq(t, 1, Len(s)) = s

\* C17: every push and pop of check changes the context stack at its top
\* by one frame; while declarations and statements are inferred the root
\* frame is at the bottom of the stack; the stack never holds more than the
\* root frame and the frame of one declaration; and when check returned
\* the stack is empty.
C17_ContextStackDiscipline ==
  /\ \A i \in DOMAIN Stacks :
       /\ Len(Stacks[i]) <= 2
       /\ Stacks[i] # <<>> => Stacks[i][1] = RootFrame
       /\ Len(Stacks[i]) = 2 => Stacks[i][2] \in Range(Flatten(groups))
       /\ i > 1 => \/ PushedOnto(Stacks[i - 1], Stacks[i])
                   \/ PushedOnto(Stacks[i], Stacks[i - 1])
       /\ Stacks[i] = <<>> => i = Len(Stacks) /\ i > 1
  /\ pc \in {"declare", "bodies", "endgroup", "toplevel"} => contexts = <<RootFrame>>
  /\ Stacks # <<>> /\ error = "" => contexts = Stacks[Len(Stacks)]
  /\ Returned => contexts = <<>>

\* check returned for a file with one declaration: its frame was pushed
\* on the root frame and popped twice, once for its signature and once for
\* its body, and the root frame was popped last.
C17_PushedAndPopped ==
  /\ pc = "done"
  /\ Len(program) = 2
  /\ program[1] = LetId
  /\ program[2] = Id1
  /\ Stacks = << <<RootFrame>>, <<RootFrame, <<1>>>>, <<RootFrame>>,
                 <<RootFrame, <<1>>>>, <<RootFrame>>, <<>> >>
  /\ contexts = <<>>
----------------------------------------------------------------------------
(* The edges of the reference graph.                                       *)

\* The node holds a ReferenceExpression of the name outside the
\* LetDeclarations nested in it, that is, one whose scope is the scope of
\* the node.
RECURSIVE Refers(_, _)
Refers(node, name) ==
  CASE node.kind = "ReferenceExpression" -> node.name = name
    [] node.kind = "CallExpression" ->
         \/ Refers(node.func, name)
         \/ \E i \in DOMAIN node.args : Refers(node.args[i], name)
    [] node.kind = "InfixExpression" ->
         Refers(node.left, name) \/ Refers(node.right, name)
    [] node.kind \in {"NestedExpression", "ExpressionStatement",
                      "ReturnStatement", "ExprBody"} ->
         Refers(node.expression, name)
    [] node.kind \in {"NamedTupleExpression", "BlockBody"} ->
         \E i \in DOMAIN node.elements : Refers(node.elements[i], name)
    [] node.kind = "IfStatement" ->
         \E i \in DOMAIN node.cases :
           \/ Refers(node.cases[i].test, name)
           \/ \E j \in DOMAIN node.cases[i].elements :
                Refers(node.cases[i].elements[j], name)
    [] OTHER -> FALSE

\* The declaration found is t or a parameter of t.
ResolvesTo(found, t) ==
  \/ found.kind = "LetDeclaration" /\ found.path = t
  \/ found.kind = "Param" /\ found.parent = t

\* Some ReferenceExpression under the body of d (in d itself or in a
\* declaration nested in d) resolves to t or to a parameter of t.
ReferenceFromTo(file, d, t) ==
  \E o \in ScopeOwners(file) \ {<<>>} :
    /\ Len(o) >= Len(d)
    /\ SubSeq(o, 1, Len(d)) = d
    /\ \E name \in LookupNames(file) :
         /\ Refers(NodeAt(file, o).body, name)
         /\ ResolvesTo(ScopeLookup(file, o, name, SymkindAny), t)

\* The edges of the graph hold only edges a reference accounts for.
OnlyReferenceEdges(file, G) ==
  \A i \in DOMAIN G.edges : ReferenceFromTo(file, G.edges[i][1], G.edges[i][2])

\* C18: the reference graph has an edge d -> t only if a
\* ReferenceExpression under the body of d resolves to the declaration t or
\* to a parameter of t; a reference to a parameter adds no edge from the
\* parameter's declaration back to the referencing declaration.
C18_EdgesFromReferences ==
  pc = "declare" => OnlyReferenceEdges(program, ComputeReferenceGraph(program))

\* check computed the graph of  let o x { let n y = o x } : the reference
\* to x in the body of n added the edge o -> n, although nothing in the
\* body of o refers to n or to y, and o and n form one group.
C18_BackEdge ==
  /\ pc = "declare"
  /\ program = <<LetO>>
  /\ <<LetTarget(<<1>>).path, LetTarget(<<1, 1>>).path>>
       \in Range(ComputeReferenceGraph(program).edges)
  /\ ~ReferenceFromTo(program, <<1>>, <<1, 1>>)
  /\ ReferenceFromTo(program, <<1, 1>>, <<1>>)
  /\ Len(groups) = 1
  /\ Range(groups[1]) = {<<1>>, <<1, 1>>}
----------------------------------------------------------------------------
(* The vertices of the reference graph.                                    *)

\* The LetDeclarations that are direct elements of the SourceFile, and
\* those of the block bodies of declarations.
TopLevelLets == {o \in ScopeOwners(program) : Len(o) = 1}
NestedLets == {o \in ScopeOwners(program) : Len(o) = 2}

\* The declarations of the groups check processes: the vertices of the
\* reference graph.
Vertices == Range(Flatten(groups))

\* C19: the vertices of the reference graph are exactly the
\* LetDeclarations that are direct elements of the SourceFile; a let
\* declared in the block body of another declaration is no vertex, belongs
\* to no group, and its name is not bound in the root environment.
C19_TopLevelVertices ==
  pc \notin {"start", "threw"} =>
    /\ Vertices = TopLevelLets
    /\ Range(ComputeReferenceGraph(program).vertices) = TopLevelLets
    /\ \A o \in NestedLets :
         NodeAt(program, o).name \notin DOMAIN frames[RootFrame].env

\* check returned for  let o x { let n y = o x }; n : the nested n is a
\* vertex and a member of a group, the root environment binds n, and the
\* statement n got an instance of its scheme instead of BindingNotFound.
C19_NestedVertex ==
  /\ pc = "done"
  /\ program = <<LetO, UseN>>
  /\ NestedLets = {<<1, 1>>}
  /\ <<1, 1>> \in Vertices
  /\ "n" \in DOMAIN frames[RootFrame].env
  /\ frames[RootFrame].env["n"].type.kind = "Arrow"
  /\ NotFound("n") = {}
  /\ log.instances # <<>>
----------------------------------------------------------------------------
(* References to declarations.                                             *)

\* The references inferred so far that resolve to a LetDeclaration.
LetReferences ==
  {i \in DOMAIN log.refs :
     log.refs[i].target.kind = "LetDeclaration" /\ ~log.refs[i].threw}

\* The reference was inferred in the body of a declaration of the group
\* of its target.
InGroup(e) == e.top # RootFrame /\ GroupOf(e.target.path) = GroupOf(e.top)

\* The type is the arrow type check gave the declaration: its parameters
\* and the return type of its context.
OwnArrow(type, path) ==
  /\ type.kind = "Arrow"
  /\ Len(type.paramTypes) = Len(NodeAt(program, path).params)
  /\ type.returnType = frames[path].returnType

\* The reference made the instantiation inst, of the scheme of the
\* declaration at path, and got its type: the scheme quantifies the return
\* type of the declaration, and the type returns a variable allocated by
\* the instantiation.
FreshInstance(e, inst, path) ==
  /\ frames[path].returnType.id \in Range(inst.tvs)
  /\ e.type.kind = "Arrow"
  /\ Len(e.type.paramTypes) = Len(NodeAt(program, path).params)
  /\ e.type.returnType.kind = "Var"
  /\ e.type.returnType.id \in Range(inst.fresh) \ inst.allocated

\* C20: while a group is inferred, a reference to a declaration of the
\* group gets the declaration's own arrow type, allocates no variable and
\* emits no constraint; when the group is finished the cached types of its
\* declarations are removed, and every later reference to one of them gets
\* a fresh instance of the declaration's scheme.
C20_CachedThenInstantiated ==
  /\ \A i \in LetReferences :
       IF InGroup(log.refs[i])
       THEN /\ OwnArrow(log.refs[i].type, log.refs[i].target.path)
            /\ log.refs[i].after = log.refs[i].before
       ELSE /\ log.refs[i].after.instances = log.refs[i].before.instances + 1
            /\ FreshInstance(log.refs[i],
                             log.instances[log.refs[i].after.instances],
                             log.refs[i].target.path)
  /\ \A p \in DOMAIN nodeType :
       pc \in {"declare", "bodies", "endgroup"} /\ GroupOf(p) = gi

\* The group of r is finished in  let f x y = x + y; let f x y = x + y;
\* let r = f 1 : the reference to f resolved to the first f and got an
\* instance of the scheme of the second, which quantifies the return type
\* of the second f and not that of the first.
C20_OtherScheme ==
  /\ pc = "endgroup"
  /\ program = <<LetF, LetF, LetR>>
  /\ \E i \in LetReferences :
       /\ log.refs[i].target = LetTarget(<<1>>)
       /\ ~InGroup(log.refs[i])
       /\ log.refs[i].after.instances = log.refs[i].before.instances + 1
       /\ frames[<<2>>].returnType.id
            \in Range(log.instances[log.refs[i].after.instances].tvs)
       /\ frames[<<1>>].returnType.id
            \notin Range(log.instances[log.refs[i].after.instances].tvs)
----------------------------------------------------------------------------
(* Instantiation of the scheme of a declaration.                           *)

\* The instantiations made so far of a scheme that holds the TVSet of a
\* group: the schemes of let declarations.
LetInstances == {i \in DOMAIN log.instances : IsRef(log.instances[i].scheme.tvs)}

\* The constraints emitted into the set, in the order of emission.
EmittedInto(set) ==
  LET idx == {i \in DOMAIN log.emitted : log.emitted[i].set = set} IN
  [k \in 1..Cardinality(idx) |->
     log.emitted[CHOOSE i \in idx : Cardinality({j \in idx : j < i}) = k - 1].constraint]

\* The type with every variable tvs[i] replaced by the variable fresh[i].
RECURSIVE Renamed(_, _, _)
Renamed(t, tvs, fresh) ==
  CASE t.kind = "Var" ->
         IF t.id \in Range(tvs)
         THEN TVar(fresh[CHOOSE i \in DOMAIN tvs : tvs[i] = t.id]) ELSE t
    [] t.kind = "Arrow" ->
         TArrow([i \in DOMAIN t.paramTypes |-> Renamed(t.paramTypes[i], tvs, fresh)],
                Renamed(t.returnType, tvs, fresh))
    [] t.kind = "Con" ->
         TCon(t.id, [i \in DOMAIN t.argTypes |-> Renamed(t.argTypes[i], tvs, fresh)],
              t.displayName)
    [] t.kind = "Tuple" ->
         TTuple([i \in DOMAIN t.elementTypes |-> Renamed(t.elementTypes[i], tvs, fresh)])
    [] OTHER -> t

\* The instantiation inst of the scheme of group g re-emitted the
\* constraints of g, renamed, into the stack of the use site.
ReEmitted(inst, g) ==
  LET cs == EmittedInto(g) IN
  /\ Len(log.emitted) >= inst.mark + Len(cs)
  /\ \A k \in DOMAIN cs :
       LET e == log.emitted[inst.mark + k] IN
       /\ e.constraint.left = Renamed(cs[k].left, inst.tvs, inst.fresh)
       /\ e.constraint.right = Renamed(cs[k].right, inst.tvs, inst.fresh)
       /\ e.constraint.node = cs[k].node
       /\ e.set = frames[inst.top].set
       /\ e.set # g

\* The instantiation visited each variable of group g once and chose a
\* variable of its own for each.
VisitedOnce(inst, g) ==
  /\ Range(inst.tvs) = typeVars[g]
  /\ Len(inst.tvs) = Cardinality(typeVars[g])
  /\ Len(inst.fresh) = Len(inst.tvs)
  /\ Cardinality(Range(inst.fresh)) = Len(inst.fresh)
  /\ Range(inst.fresh) \cap inst.allocated = {}

\* The group is complete: check is past its third loop.
Complete(g) == pc \in {"toplevel", "solve", "done"} \/ g < gi

\* C21: an instantiation of the scheme of a let declaration whose group
\* is complete re-emits every constraint attached to the frame of the
\* group, also those added while the bodies were inferred, each with the
\* variables of the group replaced by the fresh variables chosen for them,
\* into the stack of the use site; it visits each variable of the group
\* once, and no reference to a declaration of a complete group ends check
\* with an exception.
C21_InstantiationReEmits ==
  /\ \A i \in LetInstances :
       Complete(log.instances[i].scheme.tvs.set) =>
         /\ ReEmitted(log.instances[i], log.instances[i].scheme.tvs.set)
         /\ VisitedOnce(log.instances[i], log.instances[i].scheme.tvs.set)
  /\ \A i \in DOMAIN log.refs :
       log.refs[i].threw =>
         Lookup(State, log.refs[i].name).tvs = SetRef(frames[Top(State)].set)

\* The arrow type check gives f in  let f x y = x + y  as first
\* declaration: a is variable 0, the return type 1, the parameters 2 and 3.
nodeTypeOfF == TArrow(<<TVar(2), TVar(3)>>, TVar(1))

\* check returned for  let f x y = x + y; let r = f 1; f 1 : the scheme of
\* f was instantiated in the body of r and at the root, each time with the
\* constraint of `x + y`, which was emitted after the scheme was bound.
C21_LateConstraintReEmitted ==
  /\ pc = "done"
  /\ program = <<LetF, LetR, F1>>
  /\ Len(EmittedInto(1)) = 2
  /\ \E i \in LetInstances : \E j \in LetInstances :
       /\ log.instances[i].top = <<2>>
       /\ log.instances[j].top = RootFrame
       /\ log.instances[i].scheme = GroupScheme(1, nodeTypeOfF)
       /\ log.instances[j].scheme = log.instances[i].scheme
       /\ Len(log.instances[i].constraints) = 2
       /\ ReEmitted(log.instances[i], 1)
       /\ ReEmitted(log.instances[j], 1)
       /\ log.emitted[log.instances[j].mark + 1].set = RootSet
----------------------------------------------------------------------------
(* The arity of constructors.                                              *)

\* The type and the types occurring in it.
RECURSIVE AllSubTypes(_)
AllSubTypes(t) == {t} \cup UNION {AllSubTypes(s) : s \in Range(SubTypes(t))}

\* The TCon values of the check: the built-in ones and those occurring in
\* the constraints emitted.
ConTypes ==
  {t \in UNION {AllSubTypes(x) : x \in CheckTypes \cup {stringType, intType, boolType}} :
     t.kind = "Con"}

\* The assertion of unify's constructor case failed: solve runs when the
\* context stack is empty, and no other assertion is made there.
UnifyAsserted == error = "AssertionFailed" /\ contexts = <<>>

\* C22: all TCon values with the same id that exist during a check have
\* the same number of argument types, and the arity assertion of unify's
\* constructor case never fails.
C22_UniformArity ==
  /\ \A s \in ConTypes : \A t \in ConTypes :
       s.id = t.id => Len(s.argTypes) = Len(t.argTypes)
  /\ ~UnifyAsserted

\* solve unified the constraint of  Int(1) + 1 : the first parameters are
\* the constructor Int with one argument and the built-in Int with none,
\* and the assertion of unify ended check.
C22_ArityAsserted ==
  /\ pc = "threw"
  /\ program = <<Int1Plus1>>
  /\ UnifyAsserted
  /\ TCon(1, <<intType>>, "Int") \in ConTypes
  /\ intType \in ConTypes
  /\ \E u \in Unified :
       /\ u.resolved[1].paramTypes[1] = TCon(1, <<intType>>, "Int")
       /\ u.resolved[2].paramTypes[1] = intType
\* The variable v has no binding in the solution.
Free(v) == v.kind = "Var" /\ v.id \notin DOMAIN solution

\* Arrow([t, t], r) ~ Arrow([a, a], Bool) for unbound variables t, r and a.
SameOperandTwice(l, r) ==
  /\ l.kind = "Arrow" /\ r.kind = "Arrow"
  /\ Len(l.paramTypes) = 2 /\ Len(r.paramTypes) = 2
  /\ l.paramTypes[1] = l.paramTypes[2] /\ r.paramTypes[1] = r.paramTypes[2]
  /\ Free(l.paramTypes[1]) /\ Free(r.paramTypes[1]) /\ Free(l.returnType)
  /\ Cardinality({l.paramTypes[1], r.paramTypes[1], l.returnType}) = 3
  /\ r.returnType = boolType

\* The two sides of the constraint resolve to the same unbound variable, or
\* the constraint applies == to the same variable twice.
Reflexive(c) ==
  \/ Free(Resolve(c.left, solution)) /\ Resolve(c.left, solution) = Resolve(c.right, solution)
  \/ SameOperandTwice(Resolve(c.left, solution), Resolve(c.right, solution))

\* C25: unify is reflexive on variables: solving a constraint whose sides
\* resolve to the same unbound variable, or the constraint
\* Arrow([t, t], r) ~ Arrow([a, a], Bool) of == applied to the same variable
\* twice, adds no diagnostic.
C25_UnifyReflexive ==
  [][(pc = "solve" /\ Popped.kind = "Equal" /\ Reflexive(Popped))
       => diagnostics' = diagnostics]_vars

SameOperand == <<LetH(<<XEqX>>), UseH>>

\* let h x y { x == x } referenced at the top level: the instantiated
\* constraint binds t to a, fails on a ~ a and is reported.
C25_SameVariableFails ==
  /\ Returned
  /\ program = SameOperand
  /\ \E u \in Unified :
       /\ u.resolved = <<TArrow(<<TVar(7), TVar(7)>>, TVar(10)),
                         TArrow(<<TVar(9), TVar(9)>>, boolType)>>
       /\ u.sets[1] = [tv |-> 7, type |-> TVar(9)]
       /\ ~u.ok
       /\ Len(u.added) = 1
       /\ u.added[1].kind = "UnificationFailed"

\* C26: two tuple types of the same length whose elements unify pairwise
\* unify: a constraint whose sides resolve to the same tuple type, such as
\* TTuple([]) ~ TTuple([]), is solved without a diagnostic, so a body with
\* two ReturnStatements without expression yields no UnificationFailed.
C26_TuplesUnify ==
  \A u \in Unified :
    (u.resolved[1].kind = "Tuple" /\ u.resolved[2] = u.resolved[1])
      => u.ok /\ u.added = <<>>

TwoReturns == <<LetH(<<Return, Return>>), UseH>>

\* let h x y { return; return } referenced at the top level: the second
\* constraint compares TTuple([]) with TTuple([]) and is reported.
C26_EmptyTuplesFail ==
  /\ Returned
  /\ program = TwoReturns
  /\ \E u \in Unified :
       /\ u.resolved = <<TTuple(<<>>), TTuple(<<>>)>>
       /\ ~u.ok
       /\ Len(u.added) = 1
       /\ u.added[1].kind = "UnificationFailed"
  /\ Len(diagnostics) = 1

\* C27: the solution is acyclic in every state reachable during solve:
\* following the bindings from a variable never leads back to it.
C27_SolutionAcyclic == pc \in {"solve", "done"} => ~Cyclic(solution)

\* solve is still at work on `x 1 2; x y; y x` and two variables of the
\* solution are already bound to arrows over each other.
C27_CycleDuringSolve ==
  /\ pc = "solve"
  /\ queue # <<>>
  /\ program = FailureOnCycle
  /\ \E v, w \in DOMAIN solution :
       /\ v # w
       /\ OnCycle(v, solution)
       /\ w \in GetTypeVars(solution[v])
       /\ v \in GetTypeVars(solution[w])

\* The statement is, or holds in the cases of an IfStatement, a
\* ReturnStatement: infer reaches it in the frame the statement is inferred in.
RECURSIVE Returns(_)
Returns(node) ==
  \/ node.kind = "ReturnStatement"
  \/ /\ node.kind = "IfStatement"
     /\ \E c \in DOMAIN node.cases :
          \E e \in DOMAIN node.cases[c].elements :
            Returns(node.cases[c].elements[e])

\* The loop over the elements of the file is past element j.
PastElement(j) == ei > j

\* C28: a ReturnStatement inferred while the root frame is the innermost
\* frame makes check abort with an assertion failure before solve runs: no
\* constraint is unified and the root frame is left on the context stack.
C28_RootReturnAborts ==
  \A j \in DOMAIN program :
    (Returns(program[j]) /\ PastElement(j)) =>
      /\ pc = "threw"
      /\ error = "AssertionFailed"
      /\ Unified = {}
      /\ queue = <<>>
      /\ contexts = <<RootFrame>>

\* `let id x = x` followed by `if True { return }`: check threw in the loop
\* over the elements, with the root frame still on the stack.
C28_ThrewAtRootReturn ==
  /\ program = <<LetId, IfReturn>>
  /\ PastElement(2)
  /\ pc = "threw"
  /\ error = "AssertionFailed"
  /\ contexts = <<RootFrame>>
  /\ Unified = {}

----------------------------------------------------------------------------
(* Scope on its own: a Scope is constructed on a node of a file, which     *)
(* scans the node, and is then asked to look a name up.                    *)

EnumE == EnumDeclaration("E", <<"A", "B">>)
EnumU == EnumDeclaration("U", <<>>)
TypeT == TypeDeclaration("T")

\* let p P { x, y = z }
LetP ==
  LetPattern(BindPattern("p"),
             <<StructPattern("P", <<PunnedStructPatternField("x"),
                                    StructPatternField("y", BindPattern("z"))>>)>>,
             Null)

\* let Q { u = R { v } }
LetQ ==
  LetPattern(StructPattern("Q",
               <<StructPatternField("u",
                   StructPattern("R", <<PunnedStructPatternField("v")>>))>>),
             <<>>, Null)

\* let (+) a
LetW == LetPattern(WrappedOperator("+"), <<BindPattern("a")>>, Null)

\* mod M { struct S; mod N { enum E { A, B } } }
ModM == ModuleDeclaration("M", <<StructS, ModuleDeclaration("N", <<EnumE>>)>>)

\* import "m"
ImportM == ImportDeclaration("m")

ScopePool == {EnumE, EnumU, StructS, TypeT, LetP, LetQ, LetW, LetId, ModM, ImportM}

ScopeFiles == UNION {[1..n -> ScopePool] : n \in 0..MaxElements}

ScopeNames ==
  {"E", "A", "B", "U", "S", "T", "p", "P", "x", "y", "z", "Q", "R", "u", "v",
   "id", "+", "a", "M", "N"}

ExpectedKinds == {{SymVar}, {SymType}, {"Module"}, SymkindAny}

InitScope ==
  /\ NoChecker
  /\ NoParser
  /\ NoPosition
  /\ pc = "new"
  /\ \E file \in ScopeFiles : \E node \in ScopeOwners(file) :
       scope = [file |-> file, node |-> node, mapping |-> <<>>]
  /\ lookedUp = Null

\* new Scope(node): the constructor scans the node; when scan throws
\* there is no Scope.
NewScope ==
  /\ pc = "new"
  /\ IF ScopeScan(scope.file, scope.node).error # ""
     THEN pc' = "threw" /\ scope' = scope
     ELSE /\ scope' = [scope EXCEPT !.mapping = ScopeEntries(scope.file, scope.node)]
          /\ pc' = "lookup"
  /\ UNCHANGED <<lookedUp, checkerVars, parserVars, positionVars>>

\* scope.lookup(name, expectedKind); the lookup throws when it comes to an
\* enclosing node whose Scope cannot be constructed.
LookupName ==
  /\ pc = "lookup"
  /\ \E name \in ScopeNames : \E expectedKind \in ExpectedKinds :
       lookedUp' = [name |-> name, expectedKind |-> expectedKind,
                    decl |-> ScopeLookup(scope.file, scope.node, name,
                                         expectedKind)]
  /\ pc' = IF lookedUp'.decl.kind = "Thrown" THEN "threw" ELSE "found"
  /\ UNCHANGED <<scope, checkerVars, parserVars, positionVars>>

NextScope ==
  \/ NewScope
  \/ LookupName

SpecScope == InitScope /\ [][NextScope]_vars

Scanned == pc \in {"lookup", "found"}

\* The entries of the scope that map to the declaration decl.
EntriesOf(decl) == {i \in DOMAIN scope.mapping : scope.mapping[i].decl = decl}

\* Exactly one entry maps to decl, with this name and this kind.
OneEntry(decl, name, kind) ==
  /\ Cardinality(EntriesOf(decl)) = 1
  /\ \A i \in EntriesOf(decl) :
       scope.mapping[i].name = name /\ scope.mapping[i].kind = kind

\* The enum declarations the scope scanned, by their position in the file.
Enums ==
  IF scope.node # <<>> THEN {}
  ELSE {j \in DOMAIN scope.file : scope.file[j].kind = "EnumDeclaration"}

ResolvedAsVar(name, decl) ==
  /\ lookedUp # Null
  /\ lookedUp.name = name
  /\ lookedUp.expectedKind = {SymVar}
  /\ lookedUp.decl = decl

\* C23: scanning an EnumDeclaration adds exactly one entry for the name of the
\* enum, of kind Type, and one entry of kind Var per member; no Var entry maps
\* the name to the enum, so lookup(enumName, Var) does not resolve to it.
C23_EnumScanned ==
  Scanned =>
    \A j \in Enums :
      /\ OneEntry(DeclTarget(scope.file[j], <<j>>), scope.file[j].name, SymType)
      /\ \A m \in DOMAIN scope.file[j].members :
           OneEntry(MemberTarget(<<j>>, m), scope.file[j].members[m], SymVar)
      /\ ~ResolvedAsVar(scope.file[j].name, DeclTarget(scope.file[j], <<j>>))

\* The file is the enum E alone: its name has two Type entries and a Var
\* entry, and lookup("E", Var) returned the enum declaration.
C23_EnumResolvedAsVar ==
  /\ Scanned
  /\ scope.file = <<EnumE>>
  /\ scope.mapping =
       <<Entry("E", DeclTarget(EnumE, <<1>>), SymType),
         Entry("A", MemberTarget(<<1>>, 1), SymVar),
         Entry("B", MemberTarget(<<1>>, 2), SymVar),
         Entry("E", DeclTarget(EnumE, <<1>>), SymType),
         Entry("E", DeclTarget(EnumE, <<1>>), SymVar)>>
  /\ ResolvedAsVar("E", DeclTarget(EnumE, <<1>>))

\* The names a pattern binds.
RECURSIVE BoundNames(_)
BoundNames(pattern) ==
  IF pattern.kind = "BindPattern" THEN {pattern.name}
  ELSE IF pattern.kind = "WrappedOperator" THEN {pattern.operator}
  ELSE UNION {IF pattern.members[m].kind = "PunnedStructPatternField"
              THEN {pattern.members[m].name}
              ELSE BoundNames(pattern.members[m].pattern) :
              m \in DOMAIN pattern.members}

\* The names the scope maps to the declaration decl.
NamesOf(decl) == {scope.mapping[i].name : i \in EntriesOf(decl)}

\* The let declarations whose parameters, and whose pattern, the scope scanned.
ParamsScanned ==
  IF scope.node # <<>> THEN {scope.node}
  ELSE {<<j>> : j \in {i \in DOMAIN scope.file :
                         scope.file[i].kind = "LetDeclaration"}}

PatternScanned == IF scope.node # <<>> THEN {} ELSE ParamsScanned

\* C24: scanning a pattern binds the names the pattern binds: for a punned
\* field of a StructPattern the name of the field, for a field with a pattern
\* the names of that pattern.
C24_PatternNamesBound ==
  Scanned =>
    /\ \A path \in ParamsScanned :
         \A i \in DOMAIN NodeAt(scope.file, path).params :
           NamesOf(ParamTarget(path, i))
             = BoundNames(ParamPattern(NodeAt(scope.file, path), i))
    /\ \A path \in PatternScanned :
         NamesOf(LetTarget(path)) = BoundNames(PatternOf(NodeAt(scope.file, path)))

\* The file is let p P { x, y = z } alone: the parameter binds P and z, and
\* the field name x resolves to nothing.
C24_StructNameBound ==
  /\ Scanned
  /\ scope.file = <<LetP>>
  /\ scope.node = <<>>
  /\ scope.mapping =
       <<Entry("P", ParamTarget(<<1>>, 1), SymVar),
         Entry("z", ParamTarget(<<1>>, 1), SymVar),
         Entry("p", LetTarget(<<1>>), SymVar)>>
  /\ lookedUp = [name |-> "x", expectedKind |-> {SymVar}, decl |-> Null]

----------------------------------------------------------------------------
(* The expression parser (src/src/parser.ts).  A token is its kind and its *)
(* text; the state of the Parser is the index of the next token.           *)

Identifier(text) == [kind |-> "Identifier", text |-> text]
CustomOperator(text) == [kind |-> "CustomOperator", text |-> text]
LineFoldEnd == [kind |-> "LineFoldEnd", text |-> ""]

isBinaryOperatorLike(token) == token.kind = "CustomOperator"

\* EXPR_OPERATOR_TABLE, as Parser.binaryExprOperators holds it.
OperatorInfo(mode, precedence) == [mode |-> mode, precedence |-> precedence]

binaryExprOperators ==
  [name \in {"**", "*", "/", "+", "-", "<", ">", "<=", ">=", "==", "!=", "<*",
             ":", "<|>", "<?>", "$"} |->
     CASE name = "**" -> OperatorInfo("InfixR", 11)
       [] name \in {"*", "/"} -> OperatorInfo("InfixL", 8)
       [] name \in {"+", "-"} -> OperatorInfo("InfixL", 7)
       [] name \in {"<", ">"} -> OperatorInfo("InfixL", 6)
       [] name \in {"<=", ">=", "==", "!="} -> OperatorInfo("InfixL", 5)
       [] name = "<*" -> OperatorInfo("InfixL", 4)
       [] name = ":" -> OperatorInfo("InfixL", 3)
       [] name = "<|>" -> OperatorInfo("InfixL", 2)
       [] name = "<?>" -> OperatorInfo("InfixL", 1)
       [] name = "$" -> OperatorInfo("InfixR", 0)]

\* info.mode & OperatorMode.InfixR
HasInfixR(info) == info.mode \in {"InfixR", "Infix"}

\* What a parse function returns: the expression and the index of the next
\* token.
Parsed(expr, pos) == [expr |-> expr, pos |-> pos]

\* parsePrimitiveExpression and tryParseMemberExpression on an Identifier
\* that no Dot follows: a ReferenceExpression.
ParsePrimitiveExpression(toks, pos) ==
  Parsed(ReferenceExpression(toks[pos].text), pos + 1)

\* The loop of tryParseCallExpression: the arguments up to the next operator
\* or the end of the line fold.
RECURSIVE ParseArgs(_, _)
ParseArgs(toks, args) ==
  IF toks[args.pos].kind = "LineFoldEnd" \/ isBinaryOperatorLike(toks[args.pos])
  THEN args
  ELSE ParseArgs(toks,
         [expr |-> Append(args.expr, ParsePrimitiveExpression(toks, args.pos).expr),
          pos |-> args.pos + 1])

CallOrFunc(func, args) ==
  IF args.expr = <<>> THEN Parsed(func, args.pos)
  ELSE Parsed(CallExpression(func, args.expr), args.pos)

\* tryParseCallExpression
TryParseCallExpression(toks, pos) ==
  CallOrFunc(ParsePrimitiveExpression(toks, pos).expr,
             ParseArgs(toks, Parsed(<<>>, pos + 1)))

\* parseUnaryExpression: Parser.prefixExprOperators is empty, so the loop
\* over the prefixes ends at once.
ParseUnaryExpression(toks, pos) == TryParseCallExpression(toks, pos)

\* The test that ends the outer loop of parseBinaryOperatorAfterExpr.
EndsOuter(t0, minPrecedence) ==
  \/ ~isBinaryOperatorLike(t0)
  \/ t0.text \notin DOMAIN binaryExprOperators
  \/ binaryExprOperators[t0.text].precedence < minPrecedence

\* The test that ends the inner loop of parseBinaryOperatorAfterExpr.
EndsInner(t1, info0) ==
  \/ ~isBinaryOperatorLike(t1)
  \/ t1.text \notin DOMAIN binaryExprOperators
  \/ binaryExprOperators[t1.text].precedence < info0.precedence
  \/ /\ binaryExprOperators[t1.text].precedence = info0.precedence
     /\ ~HasInfixR(binaryExprOperators[t1.text])

RECURSIVE ParseBinaryOperatorAfterExpr(_, _, _)
RECURSIVE ParseRhs(_, _, _)

\* The inner loop of parseBinaryOperatorAfterExpr (lines 389-400): rhs is
\* the right operand so far, info0 the entry of the operator before it.
ParseRhs(toks, rhs, info0) ==
  IF EndsInner(toks[rhs.pos], info0) THEN rhs
  ELSE ParseRhs(toks,
                ParseBinaryOperatorAfterExpr(toks, rhs, info0.precedence),
                info0)

\* lhs with the operator at lhs.pos and the right operand rhs.
Combine(toks, lhs, rhs) ==
  Parsed(InfixExpression(lhs.expr, toks[lhs.pos].text, rhs.expr), rhs.pos)

\* parseBinaryOperatorAfterExpr (lines 375-403): lhs is the left operand and
\* the index of the token after it.
ParseBinaryOperatorAfterExpr(toks, lhs, minPrecedence) ==
  IF EndsOuter(toks[lhs.pos], minPrecedence) THEN lhs
  ELSE ParseBinaryOperatorAfterExpr(toks,
         Combine(toks, lhs,
                 ParseRhs(toks, ParseUnaryExpression(toks, lhs.pos + 1),
                          binaryExprOperators[toks[lhs.pos].text])),
         minPrecedence)

\* parseExpression (lines 405-408)
ParseExpression(toks) ==
  ParseBinaryOperatorAfterExpr(toks, ParseUnaryExpression(toks, 1), 0)

\* The expressions parsed: operands a, b, c, ... separated by operators of
\* the table, up to the end of the line fold.
OperandNames == <<"a", "b", "c", "d", "e", "f">>
Operators == {"**", "*", "+", "-", "==", "$"}

Tokens(ops) ==
  [i \in 1..(2 * Len(ops) + 2) |->
     IF i = 2 * Len(ops) + 2 THEN LineFoldEnd
     ELSE IF i % 2 = 1 THEN Identifier(OperandNames[(i + 1) \div 2])
     ELSE CustomOperator(ops[i \div 2])]

OperatorSequences == UNION {[1..n -> Operators] : n \in 0..MaxOperators}

InitParser ==
  /\ NoChecker
  /\ NoScope
  /\ NoPosition
  /\ pc = "parse"
  /\ \E ops \in OperatorSequences : tokens = Tokens(ops)
  /\ tree = Null

\* parser.parseExpression()
Parse ==
  /\ pc = "parse"
  /\ tree' = ParseExpression(tokens).expr
  /\ pc' = "parsed"
  /\ UNCHANGED <<tokens, checkerVars, scopeVars, positionVars>>

NextParser == Parse

SpecParser == InitParser /\ [][NextParser]_vars

\* The operators of the token stream, in order, and the number of operands.
OperatorsOf(toks) == [i \in 1..((Len(toks) - 2) \div 2) |-> toks[2 * i].text]

\* The operator at which the expression with the operators ops[from..to]
\* splits: the lowest precedence; among equals the last one when the
\* operators group to the left, the first one when they group to the right.
Lowest(ops, from, to) ==
  {k \in from..to :
     \A j \in from..to :
       binaryExprOperators[ops[k]].precedence <= binaryExprOperators[ops[j]].precedence}

Split(ops, from, to) ==
  LET lowest == Lowest(ops, from, to) IN
  IF \A k \in lowest : HasInfixR(binaryExprOperators[ops[k]])
  THEN CHOOSE k \in lowest : \A j \in lowest : k <= j
  ELSE CHOOSE k \in lowest : \A j \in lowest : j <= k

\* The tree precedence and associativity determine for the operands
\* from..to + 1 and the operators from..to between them.
RECURSIVE Grouped(_, _, _)
Grouped(ops, from, to) ==
  IF from > to THEN ReferenceExpression(OperandNames[from])
  ELSE InfixExpression(Grouped(ops, from, Split(ops, from, to) - 1),
                       ops[Split(ops, from, to)],
                       Grouped(ops, Split(ops, from, to) + 1, to))

\* C29: parseExpression builds the tree precedence and associativity
\* determine: a tighter operator binds first, and operators of equal
\* precedence that are InfixL group to the left, also after a tighter
\* operator in between: a - b * c - d parses as (a - (b * c)) - d.
C29_PrecedenceTree ==
  pc = "parsed" =>
    tree = Grouped(OperatorsOf(tokens), 1, Len(OperatorsOf(tokens)))

\* a - b * c - d was parsed as a - ((b * c) - d).
C29_RightNested ==
  /\ pc = "parsed"
  /\ tokens = Tokens(<<"-", "*", "-">>)
  /\ tree = InfixExpression(ReferenceExpression("a"), "-",
              InfixExpression(
                InfixExpression(ReferenceExpression("b"), "*",
                                ReferenceExpression("c")),
                "-", ReferenceExpression("d")))
  /\ Grouped(<<"-", "*", "-">>, 1, 3)
       = InfixExpression(
           InfixExpression(ReferenceExpression("a"), "-",
             InfixExpression(ReferenceExpression("b"), "*",
                             ReferenceExpression("c"))),
           "-", ReferenceExpression("d"))

----------------------------------------------------------------------------
(* TextPosition (cst.ts).  A text is the sequence of its characters.       *)

TextPosition(offset, line, column) ==
  [offset |-> offset, line |-> line, column |-> column]

\* One iteration of the loop of advance: ch is the character, length is
\* text.length.
AdvanceOver(p, ch, length) ==
  TextPosition(p.offset + length,
               IF ch = "\n" THEN p.line + 1 ELSE p.line,
               IF ch = "\n" THEN 1 ELSE p.column + 1)

\* TextPosition.advance(text), from character i on.
RECURSIVE Advance(_, _, _)
Advance(p, text, i) ==
  IF i > Len(text) THEN p
  ELSE Advance(AdvanceOver(p, text[i], Len(text)), text, i + 1)

Characters == {"a", "\n"}

Texts == UNION {[1..n -> Characters] : n \in 0..MaxText}

InitPosition ==
  /\ NoChecker
  /\ NoScope
  /\ NoParser
  /\ pc = "advance"
  /\ position = TextPosition(0, 1, 1)
  /\ advanced = Null

\* position.advance(text), as getEndPosition calls it on the clone of the
\* start position of a token.
AdvancePosition ==
  /\ pc = "advance"
  /\ position.offset <= MaxOffset
  /\ \E text \in Texts :
       /\ position' = Advance(position, text, 1)
       /\ advanced' = [before |-> position, text |-> text]
  /\ UNCHANGED <<pc, checkerVars, scopeVars, parserVars>>

NextPosition == AdvancePosition

SpecPosition == InitPosition /\ [][NextPosition]_vars

\* The newline characters of the text, by index.
Newlines(text) == {i \in DOMAIN text : text[i] = "\n"}

\* The number of characters after the last newline of the text.
AfterLastNewline(text) ==
  Len(text) - (CHOOSE i \in Newlines(text) : \A j \in Newlines(text) : j <= i)

\* C30: advance(text) increases offset by the number of characters of text,
\* increments line once per newline and sets column to 1 after each
\* newline, and increments column by one for every other character.
C30_AdvanceCounts ==
  advanced # Null =>
    /\ position.offset = advanced.before.offset + Len(advanced.text)
    /\ position.line = advanced.before.line + Cardinality(Newlines(advanced.text))
    /\ position.column =
         IF Newlines(advanced.text) = {}
         THEN advanced.before.column + Len(advanced.text)
         ELSE 1 + AfterLastNewline(advanced.text)

\* The position 0:1:1 advanced over the two characters "a\n": line and
\* column are right and the offset is 4.
C30_OffsetSquared ==
  /\ advanced = [before |-> TextPosition(0, 1, 1), text |-> <<"a", "\n">>]
  /\ position = TextPosition(4, 2, 1)

====
